---------------------------- MODULE Spec2Model ----------------------------
(***************************************************************************)
(* Chat broker (chat_server.py) and relay proxy (chat_relay.py).           *)
(*                                                                         *)
(* These specifications share this module:                                  *)
(*   Spec       the broker's select loop and its handlers                  *)
(*   SpecRate   the RateLimiter class on its own                           *)
(*   SpecFrame  send_message / receive_message over a chunked stream       *)
(*   SpecRelay  the relay's pairings, each with two forwarding threads     *)
(*   FairRelay  one relay pairing with the thread scheduler's fairness     *)
(*   FairFrame  SpecFrame with the receiving thread's fairness             *)
(*   FairChain  a client, the relay and the broker behind it               *)
(*   SpecRejoin the broker with one more connection and a leave history    *)
(*                                                                         *)
(* Python strings are sequences of one-character strings, so startswith,   *)
(* split and the f-string formats are computed, not assumed.               *)
(***************************************************************************)
EXTENDS Integers, Sequences, FiniteSets, TLC

(***************************************************************************)
(* String literals of the wire protocol.                                   *)
(***************************************************************************)
\* the handshake marker 'NAME: '
NAME_PREFIX ==
    <<"N","A","M","E",":"," ">>
\* the private-message command marker '/pm '
PM_PREFIX ==
    <<"/","p","m"," ">>
\* get_client_name's default 'Unknown'
UNKNOWN ==
    <<"U","n","k","n","o","w","n">>
\* 'CLIENT: '
CLIENT_PREFIX ==
    <<"C","L","I","E","N","T",":"," ">>
\* 'USERLIST:'
USERLIST_PREFIX ==
    <<"U","S","E","R","L","I","S","T",":">>
\* ' joined (Total Clients: '
JOINED_MID ==
    <<" ","j","o","i","n","e","d"," ","(","T","o","t","a","l"," ","C","l","i","e","n","t","s",":"," ">>
\* ' left (Total Clients: '
LEFT_MID ==
    <<" ","l","e","f","t"," ","(","T","o","t","a","l"," ","C","l","i","e","n","t","s",":"," ">>
\* 'PRIVATE from '
PRIVATE_FROM ==
    <<"P","R","I","V","A","T","E"," ","f","r","o","m"," ">>
\* 'PRIVATE to '
PRIVATE_TO ==
    <<"P","R","I","V","A","T","E"," ","t","o"," ">>
\* 'OFFLINE MESSAGE from '
OFFLINE_FROM ==
    <<"O","F","F","L","I","N","E"," ","M","E","S","S","A","G","E"," ","f","r","o","m"," ">>
\* 'User '
USER_WORD ==
    <<"U","s","e","r"," ">>
\* ' is offline. Message saved for delivery.'
IS_OFFLINE ==
    <<" ","i","s"," ","o","f","f","l","i","n","e","."," ","M","e","s","s","a","g","e"," ","s","a","v","e","d"," ","f","o","r"," ","d","e","l","i","v","e","r","y",".">>
\* 'RATE_LIMIT:'
RATE_LIMIT_PREFIX ==
    <<"R","A","T","E","_","L","I","M","I","T",":">>
\* the rate-limit warning
RATE_LIMIT_MSG ==
    <<"R","A","T","E","_","L","I","M","I","T",":"," ","Y","o","u"," ","a","r","e"," ","s","e","n","d","i","n","g"," ","m","e","s","s","a","g","e","s"," ","t","o","o"," ","q","u","i","c","k","l","y","."," ","S","l","o","w"," ","d","o","w","n","!">>
\* 'ERROR: '
ERROR_PREFIX ==
    <<"E","R","R","O","R",":"," ">>
\* the reserved-prefix reason
RESERVED_MSG ==
    <<"N","i","c","k","n","a","m","e"," ","c","a","n","n","o","t"," ","s","t","a","r","t"," ","w","i","t","h"," ","'","*","'"," ","(","r","e","s","e","r","v","e","d"," ","f","o","r"," ","r","e","l","a","y",")">>
\* the usage error
USAGE_MSG ==
    <<"U","s","a","g","e",":"," ","/","p","m"," ","<","n","i","c","k","n","a","m","e",">"," ","<","m","e","s","s","a","g","e",">">>

(***************************************************************************)
(* Bounds of the model.                                                    *)
(***************************************************************************)
\* connections the broker accepts in one run (socket objects 1..MaxConn)
MaxConn == 3
\* sockets select() reports per list (readable, exceptional) in one round
MaxReady == 1
\* the broker's clock runs over 0..MaxClock seconds
MaxClock == 1
\* frames the ACTIVE sessions send in one run
MaxFrames == 2
\* MESSAGE_RATE_LIMIT = 10 and RATE_LIMIT_WINDOW = 60 in the source; the broker
\* model scales both down, keeping RateLimiter's code as it is
MESSAGE_RATE_LIMIT == 1
RATE_LIMIT_WINDOW == 1
\* SpecRate: limits 1..MaxLimit, windows 1..MaxWindow, clock 0..MaxTime
MaxLimit == 2
MaxWindow == 2
MaxTime == 3
\* peers whose writes fail within one handler
MaxFailed == 1
\* SpecFrame: payloads of at most MaxPayload characters
MaxPayload == 2
\* SpecRelay: pairings, and frames the peers of all pairings send in one run
MaxPairs == 2
MaxRelayFrames == 2

(***************************************************************************)
(* Python's str and dict operations.                                       *)
(***************************************************************************)
Min(S) == CHOOSE x \in S : \A y \in S : x <= y

\* s.startswith(p)
StartsWith(s, p) == Len(s) >= Len(p) /\ SubSeq(s, 1, Len(p)) = p

\* s.find(sep) + 1: the first place sep occurs in s, 0 when it does not
Find(s, sep) ==
    LET at == {j \in 1..(Len(s) - Len(sep) + 1) :
                  SubSeq(s, j, j + Len(sep) - 1) = sep}
    IN  IF at = {} THEN 0 ELSE Min(at)

RECURSIVE Split(_, _, _)
\* s.split(sep, maxsplit); maxsplit = -1 splits at every occurrence
Split(s, sep, maxsplit) ==
    LET j == Find(s, sep)
    IN  IF maxsplit = 0 \/ j = 0
        THEN <<s>>
        ELSE <<SubSeq(s, 1, j - 1)>>
             \o Split(SubSeq(s, j + Len(sep), Len(s)), sep, maxsplit - 1)

RECURSIVE Join(_, _)
\* sep.join(parts)
Join(parts, sep) ==
    IF parts = <<>> THEN <<>>
    ELSE IF Len(parts) = 1 THEN parts[1]
    ELSE parts[1] \o sep \o Join(Tail(parts), sep)

DigitChars == <<"0","1","2","3","4","5","6","7","8","9">>

RECURSIVE NatToStr(_)
NatToStr(n) ==
    IF n < 10 THEN <<DigitChars[n + 1]>>
    ELSE NatToStr(n \div 10) \o <<DigitChars[(n % 10) + 1]>>

\* str(n) of an int, as the f-strings format self.clients
IntToStr(n) == IF n < 0 THEN <<"-">> \o NatToStr(0 - n) ELSE NatToStr(n)

TwoDigits(n) == <<DigitChars[(n \div 10) + 1], DigitChars[(n % 10) + 1]>>

\* datetime.now().strftime('%H:%M:%S') at clock value t (seconds)
Strftime(t) ==
    TwoDigits((t \div 3600) % 24) \o <<":">> \o TwoDigits((t \div 60) % 60)
    \o <<":">> \o TwoDigits(t % 60)

\* A dict whose iteration order is used is a sequence of <<key, value>> in
\* insertion order.
DictKeys(d) == [i \in 1..Len(d) |-> d[i][1]]
DictHas(d, k) == \E i \in 1..Len(d) : d[i][1] = k
DictGet(d, k) == d[CHOOSE i \in 1..Len(d) : d[i][1] = k][2]
DictPut(d, k, v) ==
    IF DictHas(d, k)
    THEN [i \in 1..Len(d) |-> IF d[i][1] = k THEN <<k, v>> ELSE d[i]]
    ELSE Append(d, <<k, v>>)
\* mutant: the key left in place
DictDel_Kept(d, k) == d

\* del d[k]
DictDel(d, k) == SelectSeq(d, LAMBDA e : e[1] # k)

\* del f[k] on a dict modelled as a function
Without(f, k) == [x \in DOMAIN f \ {k} |-> f[x]]
\* f[k] = v on a dict modelled as a function
With(f, k, v) == [x \in DOMAIN f \cup {k} |-> IF x = k THEN v ELSE f[x]]

\* list.remove(x) guarded by "if x in list"
Remove(list, x) == SelectSeq(list, LAMBDA y : y # x)
SeqToSet(s) == {s[i] : i \in 1..Len(s)}

(***************************************************************************)
(* State.                                                                  *)
(***************************************************************************)
VARIABLES
    \* ChatServer
    clients,          \* self.clients
    clientmap,        \* self.clientmap: socket -> <<address, nickname>>
    nickname_map,     \* self.nickname_map: nickname -> socket (insertion order)
    inputs,           \* run()'s inputs list; 0 is the listening socket
    outputs,          \* self.outputs
    total_messages,   \* self.total_messages
    private_messages, \* self.private_messages
    offline_messages, \* self.offline_messages: nickname -> entries
    running,          \* self.running
    readable,         \* the rest of select()'s readable list in this round
    exceptional,      \* the rest of select()'s exceptional list in this round
    pending,          \* the socket handle_new_connection accepted and is
                      \* blocked on in receive_message (0: none)
    accepted,         \* accept() calls so far
    received,         \* frames handle_client_message has received so far
    closed,           \* sockets the broker has closed
    sent,             \* the frames the running handler passed to send_message
    failed,           \* the sockets for which send_message returned False
    ev,               \* the handler that ran last, its socket and its input
    delivered,        \* per open session, the client frames whose routed
                      \* form was sent to it, as <<number, sender socket>>
    offline_ids,      \* per mailbox, the client frame each entry came from
    \* RateLimiter
    max_messages,     \* self.max_messages
    time_window,      \* self.time_window
    message_times,    \* self.message_times: client_id -> timestamps
    now,              \* time.time() / datetime.now(), in seconds
    rl_call,          \* the last check_rate call (SpecRate)
    rl_log,           \* every admitted call's time, per identity (SpecRate)
    \* send_message / receive_message (SpecFrame)
    payload,          \* the string handed to send_message
    wire,             \* bytes written to the stream and not yet received
    peer_closed,      \* the sending peer has closed the stream
    spc,              \* where send_message is: "size", "buffer", "done"
    rpc,              \* where receive_message is: "size", "loop", "done"
    size_data,        \* receive_message's size_data
    size,             \* receive_message's size
    buf,              \* receive_message's buf
    result,           \* what receive_message returned
    \* ChatRelay (SpecRelay)
    hpc,              \* each pairing's handle_client_connection thread
    connections,      \* self.connections: socket -> paired socket
    sock_closed,      \* sockets the relay has closed
    tpc,              \* where each forward_data thread is
    tdata,            \* each forward_data thread's data
    first_message,    \* each forward_data thread's first_message
    rin,              \* the frames each thread's receive_message returned
    rout,             \* the frames each thread's send_message forwarded
    \* the relay in front of the broker (FairChain)
    to_relay,         \* the frames the broker wrote to the relay's upstream
                      \* connection that the relay has not read yet
    \* history (SpecRejoin)
    left_names        \* the nicknames of the sessions that were torn down

brokerVars == <<clients, clientmap, nickname_map, inputs, outputs,
                total_messages, private_messages, offline_messages, running,
                readable, exceptional, pending, accepted, received, closed,
                sent, failed, ev, delivered, offline_ids>>
rateVars == <<message_times, now>>
rateGhost == <<rl_call, rl_log>>
frameVars == <<payload, wire, peer_closed, spc, rpc, size_data, size, buf,
               result>>
relayVars == <<hpc, connections, sock_closed, tpc, tdata, first_message, rin,
               rout>>
limiterVars == <<max_messages, time_window>>
chainVars == <<to_relay>>
leftGhost == <<left_names>>
nonBroker == <<limiterVars, rateGhost, frameVars, relayVars, chainVars,
               leftGhost>>
vars == <<brokerVars, rateVars, nonBroker>>

(***************************************************************************)
(* RateLimiter.                                                            *)
(***************************************************************************)
\* mutant: a timestamp exactly time_window old still counts
InWindow_Inclusive(current_time, t) == current_time - t <= time_window

\* the comprehension's filter: current_time - t < self.time_window
InWindow(current_time, t) == current_time - t < time_window

\* self.message_times[client_id] after the pruning assignment
Pruned(times, current_time) ==
    SelectSeq(times, LAMBDA t : InWindow(current_time, t))

\* mutant: the limit test off by one
LimitExceeded_Above(times) == Len(times) > max_messages

\* mutant: no call is ever over the limit
LimitExceeded_Never(times) == FALSE

\* len(self.message_times[client_id]) >= self.max_messages
LimitExceeded(times) == Len(times) >= max_messages

TimesOf(mt, client_id) == IF client_id \in DOMAIN mt THEN mt[client_id] ELSE <<>>

\* check_rate's return value
CheckRate(mt, client_id, current_time) ==
    ~LimitExceeded(Pruned(TimesOf(mt, client_id), current_time))

\* mutant: the denied call's time recorded as well
CheckRateList_Recorded(times, current_time) ==
    Append(Pruned(times, current_time), current_time)

\* the list check_rate leaves for client_id
CheckRateList(times, current_time) ==
    IF LimitExceeded(Pruned(times, current_time))
    THEN Pruned(times, current_time)
    ELSE Append(Pruned(times, current_time), current_time)

\* self.message_times after check_rate(client_id)
CheckRateTimes(mt, client_id, current_time) ==
    With(mt, client_id, CheckRateList(TimesOf(mt, client_id), current_time))

\* mutant: the identity's list kept
RemoveClient_Kept(mt, client_id) == mt

\* self.message_times after remove_client(client_id)
RemoveClient(mt, client_id) ==
    IF client_id \in DOMAIN mt THEN Without(mt, client_id) ELSE mt

(***************************************************************************)
(* ChatServer: helpers.                                                    *)
(***************************************************************************)
\* the listening socket, self.server
Server == 0
\* exclude=None
None == -1
Socks == 1..MaxConn

Frame(to, text) == [to |-> to, frame |-> text]
NoEvent == [h |-> "none", sock |-> 0, data |-> <<>>, admitted |-> FALSE]
Event(h, sock, data, admitted) ==
    [h |-> h, sock |-> sock, data |-> data, admitted |-> admitted]

\* string.digits, cut to one digit, and the k=3 suffixes random.choices draws;
\* a handshake all of whose suffixed names are taken is not explored
Digits == {"0"}
Suffixes == {<<a, b, c>> : a \in Digits, b \in Digits, c \in Digits}

\* the results generate_unique_nickname can return
GenerateUniqueNickname(nmap, base_nickname) ==
    IF ~DictHas(nmap, base_nickname)
    THEN {base_nickname}
    ELSE {base_nickname \o s : s \in {x \in Suffixes :
                                        ~DictHas(nmap, base_nickname \o x)}}

\* mutant: the marker compared with the whole name
IsReserved_WholeName(cname) == cname = <<"*">>

\* cname.startswith('*')
IsReserved(cname) == StartsWith(cname, <<"*">>)

\* mutant: the socket left open
Close_Leaked(cl, sock) == cl

\* the closed sockets after sock.close()
Close(cl, sock) == cl \cup {sock}

GetClientName(cmap, client) ==
    IF client \in DOMAIN cmap THEN cmap[client][2] ELSE UNKNOWN

\* send_message returns False when channel.send raises; its callers drop
\* the result. The sockets among the handler's frames whose write failed:
SendFailures(frames) ==
    {F \in SUBSET {frames[i].to : i \in 1..Len(frames)} :
        Cardinality(F) <= MaxFailed}

\* mutant: the "if output != exclude" test left out
Broadcast_ToAll(outs, message, exclude) ==
    [i \in 1..Len(outs) |-> Frame(outs[i], message)]

\* the send_message calls of broadcast(message, exclude), in order
Broadcast(outs, message, exclude) ==
    LET targets == SelectSeq(outs, LAMBDA o : o # exclude)
    IN  [i \in 1..Len(targets) |-> Frame(targets[i], message)]

UserListFrame(nmap) ==
    USERLIST_PREFIX \o Join(DictKeys(nmap), <<",">>)

\* send_user_list(client_sock)
SendUserList(nmap, client_sock) == <<Frame(client_sock, UserListFrame(nmap))>>

\* "for sock in self.outputs: self.send_user_list(sock)"
SendUserListAll(outs, nmap) ==
    [i \in 1..Len(outs) |-> Frame(outs[i], UserListFrame(nmap))]

Stamp(timestamp, text) == <<"[">> \o timestamp \o <<"]", " ">> \o text

OfflineFrame(entry) ==
    Stamp(entry[3], OFFLINE_FROM \o entry[1] \o <<":", " ">> \o entry[2])

\* mutant: the queue walked from its tail
DeliverOfflineFrames_Reversed(om, nickname, client_sock) ==
    IF nickname \in DOMAIN om
    THEN [i \in 1..Len(om[nickname]) |->
             Frame(client_sock,
                   OfflineFrame(om[nickname][Len(om[nickname]) + 1 - i]))]
    ELSE <<>>

\* the frames deliver_offline_messages sends
DeliverOfflineFrames(om, nickname, client_sock) ==
    IF nickname \in DOMAIN om
    THEN [i \in 1..Len(om[nickname]) |->
             Frame(client_sock, OfflineFrame(om[nickname][i]))]
    ELSE <<>>

\* mutant: the "del self.offline_messages[nickname]" left out
DeliverOfflineMessages_NoDel(om, nickname) == om

\* self.offline_messages after deliver_offline_messages
DeliverOfflineMessages(om, nickname) ==
    IF nickname \in DOMAIN om THEN Without(om, nickname) ELSE om

\* mutant: the entry inserted at the head of the queue
SaveOffline_AtHead(om, target_nickname, entry) ==
    With(om, target_nickname,
         <<entry>> \o (IF target_nickname \in DOMAIN om THEN om[target_nickname]
                       ELSE <<>>))

\* self.offline_messages after send_private_message's else branch
SaveOffline(om, target_nickname, entry) ==
    With(om, target_nickname,
         Append(IF target_nickname \in DOMAIN om THEN om[target_nickname]
                ELSE <<>>, entry))

OfflineNotice(target_nickname) == USER_WORD \o target_nickname \o IS_OFFLINE

\* mutant: the connection closed without the error frame
ReservedReply_Silent(client) == <<>>

\* send_message(client, f"ERROR: {error_msg}")
ReservedReply(client) == <<Frame(client, ERROR_PREFIX \o RESERVED_MSG)>>

\* mutant: 'CLIENT: ' sent after the first member list
JoinSends_ListFirst(client, unique, nmap, outs, join_msg, om) ==
    SendUserList(nmap, client)
    \o <<Frame(client, CLIENT_PREFIX \o unique)>>
    \o DeliverOfflineFrames(om, unique, client)
    \o Broadcast(outs, join_msg, client)
    \o SendUserListAll(outs, nmap)

\* the send_message calls of handle_new_connection after it registered
\* client as unique, in order
JoinSends(client, unique, nmap, outs, join_msg, om) ==
    <<Frame(client, CLIENT_PREFIX \o unique)>>
    \o SendUserList(nmap, client)
    \o DeliverOfflineFrames(om, unique, client)
    \o Broadcast(outs, join_msg, client)
    \o SendUserListAll(outs, nmap)

(***************************************************************************)
(* ChatServer: what the peers send.                                        *)
(***************************************************************************)
\* first frames of a new connection ('' is a peer that closes, or a frame
\* receive_message could not decode)
Handshakes ==
    { <<>>,
      <<"x">>,
      NAME_PREFIX \o <<"a">>,
      NAME_PREFIX \o UNKNOWN,
      NAME_PREFIX \o <<"*", "a">>,
      NAME_PREFIX \o <<"a">> \o NAME_PREFIX \o <<"*", "a">> }

\* frames of an ACTIVE session ('' as above)
ClientData ==
    { <<>>,
      <<"x">>,
      PM_PREFIX \o <<"a", " ", "x">>,
      PM_PREFIX \o <<"a", " ", "x", " ", "y">>,
      PM_PREFIX \o UNKNOWN \o <<" ", "x">>,
      PM_PREFIX \o <<"a">>,
      PM_PREFIX \o <<"a", " ">> }

\* the subsequences of list of at most n elements
SubLists(list, n) ==
    { SelectSeq(list, LAMBDA x : x \in S) :
        S \in {T \in SUBSET SeqToSet(list) : Cardinality(T) <= n} }

(***************************************************************************)
(* History of routed messages (kept beside the broker's own state).        *)
(***************************************************************************)
\* the send_message calls among frames that went to socket s
SentTo(frames, s) == SelectSeq(frames, LAMBDA f : f.to = s)

\* the client frame a handler is routing: its number, socket, sender name,
\* text and time
Origin(sock, data) ==
    [n |-> received + 1, sock |-> sock,
     name |-> GetClientName(clientmap, sock), data |-> data,
     at |-> Strftime(now)]

\* delivered after the handler sent frames as the routed form of id
LogRouted(id, frames) ==
    [r \in Socks |->
        delivered[r] \o [i \in 1..Len(SentTo(frames, r)) |-> <<id.n, id.sock>>]]

\* the history once sock is closed: nothing more is sent to it, and nothing
\* more comes from it
Forget(sock) ==
    [r \in Socks |->
        IF r = sock THEN <<>>
        ELSE SelectSeq(delivered[r], LAMBDA e : e[2] # sock)]

\* the history after handle_client_message routed data from sock: a public
\* message is all of sent', a delivered private message its first frame, a
\* queued one goes to the mailbox that grew
LogMessage(sock, data) ==
    LET id == Origin(sock, data)
        grown == {n \in DOMAIN offline_messages' :
                     \/ n \notin DOMAIN offline_messages
                     \/ offline_messages'[n] # offline_messages[n]}
    IN  IF data = <<>>
        THEN TRUE
        ELSE IF ~ev'.admitted
        THEN UNCHANGED <<delivered, offline_ids>>
        ELSE IF total_messages' # total_messages
        THEN delivered' = LogRouted(id, sent') /\ UNCHANGED offline_ids
        ELSE IF private_messages' # private_messages
        THEN delivered' = LogRouted(id, <<sent'[1]>>) /\ UNCHANGED offline_ids
        ELSE /\ offline_ids' =
                   [n \in DOMAIN offline_ids \cup grown |->
                       IF n \in grown
                       THEN Append(IF n \in DOMAIN offline_ids
                                   THEN offline_ids[n] ELSE <<>>, id)
                       ELSE offline_ids[n]]
             /\ UNCHANGED delivered

\* the history after handle_new_connection: the 'OFFLINE MESSAGE' frames
\* sent to a registered client are the forms of its mailbox's entries
LogHandshake(client) ==
    IF client \in DOMAIN clientmap'
    THEN LET nickname == clientmap'[client][2]
             ids == IF nickname \in DOMAIN offline_ids
                    THEN offline_ids[nickname] ELSE <<>>
             got == SelectSeq(sent', LAMBDA f :
                        f.to = client /\ f.frame # <<>> /\ f.frame[1] = "[")
         IN  /\ delivered' =
                   [delivered EXCEPT ![client] =
                       [i \in 1..Min({Len(ids), Len(got)}) |->
                           <<ids[i].n, ids[i].sock>>]]
             /\ offline_ids' = IF nickname \in DOMAIN offline_ids
                               THEN Without(offline_ids, nickname)
                               ELSE offline_ids
    ELSE UNCHANGED <<delivered, offline_ids>>

(***************************************************************************)
(* ChatServer: handlers.                                                   *)
(***************************************************************************)
\* mutant: the message queued without looking the target up
SendPrivateMessage_Queued(sender_sock, target_nickname, message) ==
    /\ offline_messages' =
           SaveOffline(offline_messages, target_nickname,
                       <<GetClientName(clientmap, sender_sock), message,
                         Strftime(now)>>)
    /\ sent' = <<Frame(sender_sock, OfflineNotice(target_nickname))>>
    /\ UNCHANGED private_messages

\* send_private_message(sender_sock, target_nickname, message)
SendPrivateMessage(sender_sock, target_nickname, message) ==
    LET timestamp == Strftime(now)
        sender_name == GetClientName(clientmap, sender_sock)
    IN  IF DictHas(nickname_map, target_nickname)
        THEN /\ sent' = << Frame(DictGet(nickname_map, target_nickname),
                                 Stamp(timestamp, PRIVATE_FROM \o sender_name
                                                  \o <<":", " ">> \o message)),
                           Frame(sender_sock,
                                 Stamp(timestamp, PRIVATE_TO \o target_nickname
                                                  \o <<":", " ">> \o message)) >>
             /\ private_messages' = private_messages + 1
             /\ UNCHANGED offline_messages
        ELSE /\ offline_messages' =
                    SaveOffline(offline_messages, target_nickname,
                                <<sender_name, message, timestamp>>)
             /\ sent' = <<Frame(sender_sock, OfflineNotice(target_nickname))>>
             /\ UNCHANGED private_messages

\* mutant: the disconnect without leave notice and user lists
HandleClientDisconnect_Silent(sock) ==
    LET client_name == GetClientName(clientmap, sock)
    IN  /\ clients' = clients - 1
        /\ inputs' = Remove(inputs, sock)
        /\ outputs' = Remove(outputs, sock)
        /\ clientmap' = IF sock \in DOMAIN clientmap
                        THEN Without(clientmap, sock) ELSE clientmap
        /\ nickname_map' = DictDel(nickname_map, client_name)
        /\ message_times' = RemoveClient(message_times, client_name)
        /\ closed' = Close(closed, sock)
        /\ sent' = <<>>
        /\ delivered' = Forget(sock)
        /\ UNCHANGED offline_ids

\* handle_client_disconnect(sock, inputs)
HandleClientDisconnect(sock) ==
    LET client_name == GetClientName(clientmap, sock)
        outs == Remove(outputs, sock)
        nmap == DictDel(nickname_map, client_name)
        leave_msg == client_name \o LEFT_MID \o IntToStr(clients - 1) \o <<")">>
    IN  /\ clients' = clients - 1
        /\ inputs' = Remove(inputs, sock)
        /\ outputs' = outs
        /\ clientmap' = IF sock \in DOMAIN clientmap
                        THEN Without(clientmap, sock) ELSE clientmap
        /\ nickname_map' = nmap
        /\ message_times' = RemoveClient(message_times, client_name)
        /\ closed' = Close(closed, sock)
        /\ sent' = Broadcast(outs, leave_msg, None) \o SendUserListAll(outs, nmap)
        /\ delivered' = Forget(sock)
        /\ UNCHANGED offline_ids

\* mutant: the denied frame counted toward total_messages
RateLimited_Counted(sock) ==
    /\ sent' = <<Frame(sock, RATE_LIMIT_MSG)>>
    /\ total_messages' = total_messages + 1
    /\ UNCHANGED <<private_messages, offline_messages>>

\* handle_client_message's branch for a denied frame
RateLimited(sock) ==
    /\ sent' = <<Frame(sock, RATE_LIMIT_MSG)>>
    /\ UNCHANGED <<total_messages, private_messages, offline_messages>>

\* handle_client_message(sock, inputs) when receive_message returns data
HandleClientMessage(sock, data) ==
    LET client_name == GetClientName(clientmap, sock)
        admitted == CheckRate(message_times, client_name, now)
        parts == Split(data, <<" ">>, 2)
        timestamp == Strftime(now)
        msg == Stamp(timestamp, client_name \o <<":", " ">> \o data)
    IN  /\ ev' = Event("message", sock, data, data # <<>> /\ admitted)
        /\ IF data # <<>>
           THEN /\ message_times' = CheckRateTimes(message_times, client_name, now)
                /\ UNCHANGED <<clients, inputs, outputs, clientmap,
                               nickname_map, closed>>
                /\ IF ~admitted
                   THEN RateLimited(sock)
                   ELSE IF StartsWith(data, PM_PREFIX)
                   THEN /\ IF Len(parts) >= 3
                           THEN SendPrivateMessage(sock, parts[2], parts[3])
                           ELSE /\ sent' = <<Frame(sock, USAGE_MSG)>>
                                /\ UNCHANGED <<private_messages,
                                               offline_messages>>
                        /\ UNCHANGED total_messages
                   ELSE /\ sent' = Broadcast(outputs, msg, sock)
                        /\ total_messages' = total_messages + 1
                        /\ UNCHANGED <<private_messages, offline_messages>>
           ELSE /\ HandleClientDisconnect(sock)
                /\ UNCHANGED <<total_messages, private_messages,
                               offline_messages>>

\* self.shutdown(): every output and the listening socket closed, sys.exit(0)
Shutdown ==
    /\ running' = FALSE
    /\ closed' = closed \cup SeqToSet(outputs) \cup {Server}
    /\ readable' = <<>>
    /\ exceptional' = <<>>
    /\ sent' = <<>>
    /\ UNCHANGED <<clients, clientmap, nickname_map, inputs, outputs,
                   total_messages, private_messages, offline_messages,
                   pending, accepted, received, message_times, delivered,
                   offline_ids>>

(***************************************************************************)
(* ChatServer.run: one action per step of the select loop.                 *)
(***************************************************************************)
\* select.select(inputs, self.outputs, inputs, 1) returns
Select ==
    /\ running /\ pending = 0 /\ readable = <<>> /\ exceptional = <<>>
    /\ \E r \in SubLists(inputs, MaxReady), e \in SubLists(inputs, MaxReady) :
          /\ r # <<>> \/ e # <<>>
          /\ Server \in SeqToSet(r) => accepted < MaxConn
          /\ readable' = r
          /\ exceptional' = e
    /\ sent' = <<>>
    /\ failed' = {}
    /\ UNCHANGED <<delivered, offline_ids>>
    /\ ev' = NoEvent
    /\ UNCHANGED <<clients, clientmap, nickname_map, inputs, outputs,
                   total_messages, private_messages, offline_messages, running,
                   pending, accepted, received, closed, rateVars, nonBroker>>

\* the clock advances while the loop waits in select
Tick ==
    /\ running /\ pending = 0 /\ readable = <<>> /\ exceptional = <<>>
    /\ now < MaxClock
    /\ now' = now + 1
    /\ sent' = <<>>
    /\ failed' = {}
    /\ UNCHANGED <<delivered, offline_ids>>
    /\ ev' = NoEvent
    /\ UNCHANGED <<clients, clientmap, nickname_map, inputs, outputs,
                   total_messages, private_messages, offline_messages, running,
                   readable, exceptional, pending, accepted, received,
                   closed, message_times, nonBroker>>

\* handle_new_connection up to its blocking receive_message(client)
Accept ==
    /\ running /\ pending = 0
    /\ readable # <<>> /\ Head(readable) = Server
    /\ readable' = Tail(readable)
    /\ accepted' = accepted + 1
    /\ pending' = accepted + 1
    /\ sent' = <<>>
    /\ failed' = {}
    /\ UNCHANGED <<delivered, offline_ids>>
    /\ ev' = Event("accept", accepted + 1, <<>>, FALSE)
    /\ UNCHANGED <<clients, clientmap, nickname_map, inputs, outputs,
                   total_messages, private_messages, offline_messages, running,
                   exceptional, received, closed, rateVars, nonBroker>>

\* the rest of handle_new_connection, once receive_message returned cname
HandleNewConnection(cname) ==
    LET client == pending
        name == Split(cname, NAME_PREFIX, -1)[2]
    IN  /\ running /\ pending # 0
        /\ pending' = 0
        /\ ev' = Event("handshake", client, cname, FALSE)
        /\ UNCHANGED <<total_messages, private_messages, running, readable,
                       exceptional, accepted, received, rateVars>>
        /\ IF cname = <<>> \/ ~StartsWith(cname, NAME_PREFIX)
           THEN /\ closed' = Close(closed, client)
                /\ sent' = <<>>
                /\ UNCHANGED <<clients, clientmap, nickname_map, inputs,
                               outputs, offline_messages>>
           ELSE IF IsReserved(name)
           THEN /\ sent' = ReservedReply(client)
                /\ closed' = Close(closed, client)
                /\ UNCHANGED <<clients, clientmap, nickname_map, inputs,
                               outputs, offline_messages>>
           ELSE \E unique \in GenerateUniqueNickname(nickname_map, name) :
                LET nmap == DictPut(nickname_map, unique, client)
                    outs == Append(outputs, client)
                    join_msg == unique \o JOINED_MID \o IntToStr(clients + 1)
                                \o <<")">>
                IN  /\ clients' = clients + 1
                    /\ clientmap' = With(clientmap, client, <<client, unique>>)
                    /\ nickname_map' = nmap
                    /\ inputs' = Append(inputs, client)
                    /\ outputs' = outs
                    /\ offline_messages' =
                           DeliverOfflineMessages(offline_messages, unique)
                    /\ sent' = JoinSends(client, unique, nmap, outs, join_msg,
                                       offline_messages)
                    /\ UNCHANGED closed
        /\ failed' \in SendFailures(sent')
        /\ LogHandshake(client)

\* "for sock in readable": handle_client_message(sock, inputs)
Readable ==
    /\ running /\ pending = 0
    /\ readable # <<>> /\ Head(readable) # Server
    /\ readable' = Tail(readable)
    /\ \E data \in ClientData :
          /\ data # <<>> => received < MaxFrames
          /\ received' = IF data # <<>> THEN received + 1 ELSE received
          /\ HandleClientMessage(Head(readable), data)
          /\ LogMessage(Head(readable), data)
    /\ failed' \in SendFailures(sent')
    /\ UNCHANGED <<running, exceptional, pending, accepted, now, nonBroker>>

\* "for sock in exceptional": handle_client_error(sock, inputs)
HandleClientError ==
    /\ running /\ pending = 0
    /\ readable = <<>> /\ exceptional # <<>>
    /\ ev' = Event("error", Head(exceptional), <<>>, FALSE)
    /\ UNCHANGED nonBroker
    /\ IF Head(exceptional) = Server
       THEN Shutdown /\ UNCHANGED now
       ELSE /\ HandleClientDisconnect(Head(exceptional))
            /\ exceptional' = Tail(exceptional)
            /\ UNCHANGED <<total_messages, private_messages, offline_messages,
                           running, readable, pending, accepted, received, now>>
    /\ failed' \in SendFailures(sent')

\* receive_message(client) returns the first frame of a peer
Handshake ==
    /\ \E cname \in Handshakes : HandleNewConnection(cname)
    /\ UNCHANGED nonBroker

\* the broker's own variables as __init__ and run() set them
ChatServerInit ==
    /\ clients = 0
    /\ clientmap = <<>>
    /\ nickname_map = <<>>
    /\ inputs = <<Server>>
    /\ outputs = <<>>
    /\ total_messages = 0
    /\ private_messages = 0
    /\ offline_messages = <<>>
    /\ running = TRUE
    /\ readable = <<>>
    /\ exceptional = <<>>
    /\ pending = 0
    /\ accepted = 0
    /\ received = 0
    /\ closed = {}
    /\ sent = <<>>
    /\ failed = {}
    /\ ev = NoEvent
    /\ delivered = [r \in Socks |-> <<>>]
    /\ offline_ids = <<>>

LimiterInit ==
    \* RateLimiter(MESSAGE_RATE_LIMIT, RATE_LIMIT_WINDOW)
    /\ max_messages = MESSAGE_RATE_LIMIT
    /\ time_window = RATE_LIMIT_WINDOW
    /\ message_times = <<>>
    /\ now = 0

(***************************************************************************)
(* SpecRate: a RateLimiter on its own, called in any order at any times.   *)
(* rl_log keeps, per identity, the times of the calls admitted and of the  *)
(* calls denied since the identity was last forgotten (remove_client);     *)
(* rl_call describes the last check_rate call.                             *)
(***************************************************************************)
RateIds == {<<"a">>, <<"b">>}
NoCall == [id |-> <<>>, at |-> 0, result |-> FALSE, before |-> <<>>,
           admitted_before |-> <<>>, denied_before |-> {}]
NoLog == [admitted |-> <<>>, denied |-> {}]

\* rl.check_rate(client_id)
RateCheck(client_id) ==
    LET ok == CheckRate(message_times, client_id, now)
        log == rl_log[client_id]
    IN  /\ message_times' = CheckRateTimes(message_times, client_id, now)
        /\ rl_call' = [id |-> client_id, at |-> now, result |-> ok,
                       before |-> TimesOf(message_times, client_id),
                       admitted_before |-> log.admitted,
                       denied_before |-> log.denied]
        /\ rl_log' = [rl_log EXCEPT ![client_id] =
                        IF ok THEN [log EXCEPT !.admitted = Append(@, now)]
                        ELSE [log EXCEPT !.denied = @ \cup {now}]]
        /\ UNCHANGED <<now, limiterVars, brokerVars, frameVars, relayVars,
                   chainVars, leftGhost>>

\* rl.remove_client(client_id)
RateRemove(client_id) ==
    /\ message_times' = RemoveClient(message_times, client_id)
    /\ rl_log' = [rl_log EXCEPT ![client_id] = NoLog]
    /\ rl_call' = NoCall
    /\ UNCHANGED <<now, limiterVars, brokerVars, frameVars, relayVars,
                   chainVars, leftGhost>>

\* time.time() advances between calls
RateTick ==
    /\ now < MaxTime
    /\ now' = now + 1
    /\ rl_call' = NoCall
    /\ UNCHANGED <<message_times, rl_log, limiterVars, brokerVars, frameVars,
                   relayVars, chainVars, leftGhost>>

RateCheckAny == \E client_id \in RateIds : RateCheck(client_id)
RateRemoveAny == \E client_id \in RateIds : RateRemove(client_id)

(***************************************************************************)
(* SpecFrame: send_message writes one frame to a stream; receive_message   *)
(* reads it at the other end. A recv(n) returns whatever part of the       *)
(* written bytes has arrived, at least one byte and at most n; it returns  *)
(* b'' once the peer has closed and nothing is left.                       *)
(***************************************************************************)
\* struct.calcsize("L") with native alignment on 64-bit Linux
HeaderSize == 8

PayloadChars == {"a", "b"}
Payloads ==
    UNION {[1..n -> PayloadChars] : n \in 0..MaxPayload}

\* ord(c) and chr(n) on the payload alphabet
Ord(c) == IF c = "a" THEN 97 ELSE 98
Chr(n) == IF n = 97 THEN "a" ELSE "b"

\* pickle.dumps((s,)), protocol 4: PROTO 4, FRAME <8-byte length>,
\* SHORT_BINUNICODE <length> <utf-8>, MEMOIZE, TUPLE1, MEMOIZE, STOP
PickleDumps(s) ==
    <<128, 4, 149, Len(s) + 6, 0, 0, 0, 0, 0, 0, 0, 140, Len(s)>>
    \o [i \in 1..Len(s) |-> Ord(s[i])]
    \o <<148, 133, 148, 46>>

\* whether pickle.loads(b) succeeds on a pickle of a one-string tuple
PickleLoadable(b) ==
    /\ Len(b) >= 17
    /\ SubSeq(b, 1, 3) = <<128, 4, 149>>
    /\ b[4] = Len(b) - 11
    /\ SubSeq(b, 5, 11) = <<0, 0, 0, 0, 0, 0, 0>>
    /\ b[12] = 140
    /\ b[13] = Len(b) - 17
    /\ \A i \in 14..(Len(b) - 4) : b[i] \in {97, 98}
    /\ SubSeq(b, Len(b) - 3, Len(b)) = <<148, 133, 148, 46>>

\* pickle.loads(b)[0]
PickleLoads0(b) == [i \in 1..(Len(b) - 17) |-> Chr(b[i + 13])]

\* struct.pack("L", socket.htonl(n)): n big-endian in the low four bytes of
\* a little-endian 8-byte long
PackSize(n) ==
    <<(n \div 16777216) % 256, (n \div 65536) % 256, (n \div 256) % 256,
      n % 256, 0, 0, 0, 0>>

\* struct.unpack("L", b) succeeds, and socket.ntohl accepts the value
Unpackable(b) == Len(b) = HeaderSize /\ SubSeq(b, 5, 8) = <<0, 0, 0, 0>>

\* socket.ntohl(struct.unpack("L", b)[0])
UnpackSize(b) == b[1] * 16777216 + b[2] * 65536 + b[3] * 256 + b[4]

\* the return value of receive_message's last line, '' when loads raises
Decode(b) == IF PickleLoadable(b) THEN PickleLoads0(b) ELSE <<>>

nonFrame == <<brokerVars, rateVars, limiterVars, rateGhost, relayVars,
             chainVars, leftGhost>>

\* send_message: channel.send(size)
SendSize ==
    /\ spc = "size" /\ ~peer_closed
    /\ wire' = wire \o PackSize(Len(PickleDumps(payload)))
    /\ spc' = "buffer"
    /\ UNCHANGED <<payload, peer_closed, rpc, size_data, size, buf, result,
                   nonFrame>>

\* send_message: channel.send(buffer); return True
SendBuffer ==
    /\ spc = "buffer" /\ ~peer_closed
    /\ wire' = wire \o PickleDumps(payload)
    /\ spc' = "done"
    /\ UNCHANGED <<payload, peer_closed, rpc, size_data, size, buf, result,
                   nonFrame>>

\* the sending peer closes its end, at any point
PeerClose ==
    /\ ~peer_closed
    /\ peer_closed' = TRUE
    /\ UNCHANGED <<payload, wire, spc, rpc, size_data, size, buf, result,
                   nonFrame>>

\* what the header read leads to: size_data empty returns '', a short
\* size_data makes struct.unpack raise, which returns '' as well
AfterHeader(data) ==
    IF data # <<>> /\ Unpackable(data)
    THEN /\ size' = UnpackSize(data)
         /\ rpc' = "loop"
         /\ UNCHANGED result
    ELSE /\ rpc' = "done"
         /\ result' = <<>>
         /\ UNCHANGED size

\* receive_message: size_data = channel.recv(struct.calcsize("L")) and the
\* lines up to the loop
RecvSize ==
    /\ rpc = "size"
    /\ \/ \E k \in 1..HeaderSize :
             /\ k <= Len(wire)
             /\ size_data' = SubSeq(wire, 1, k)
             /\ wire' = SubSeq(wire, k + 1, Len(wire))
             /\ AfterHeader(SubSeq(wire, 1, k))
       \/ /\ wire = <<>> /\ peer_closed
          /\ size_data' = <<>>
          /\ AfterHeader(<<>>)
          /\ UNCHANGED wire
    /\ buf' = <<>>
    /\ UNCHANGED <<payload, peer_closed, spc, nonFrame>>

\* receive_message: one "buf += channel.recv(size - len(buf))"
RecvLoop ==
    /\ rpc = "loop" /\ Len(buf) < size
    /\ \/ \E k \in 1..(size - Len(buf)) :
             /\ k <= Len(wire)
             /\ buf' = buf \o SubSeq(wire, 1, k)
             /\ wire' = SubSeq(wire, k + 1, Len(wire))
       \/ /\ wire = <<>> /\ peer_closed
          /\ UNCHANGED <<buf, wire>>
    /\ UNCHANGED <<payload, peer_closed, spc, rpc, size_data, size, result,
                   nonFrame>>

\* receive_message: return pickle.loads(buf)[0]
RecvReturn ==
    /\ rpc = "loop" /\ Len(buf) >= size
    /\ result' = Decode(buf)
    /\ rpc' = "done"
    /\ UNCHANGED <<payload, wire, peer_closed, spc, size_data, size, buf,
                   nonFrame>>

(***************************************************************************)
(* SpecRelay: ChatRelay. Each accepted client gets a handler thread, which *)
(* opens the upstream connection and starts two forward_data threads. The  *)
(* threads interleave statement by statement.                              *)
(***************************************************************************)
Pairs == 1..MaxPairs
\* the client socket and the upstream socket of pairing p
ClientSock(p) == 2 * p - 1
ServerSock(p) == 2 * p
\* a forward_data thread: <<pairing, is_client_to_server>>
Threads == Pairs \X BOOLEAN
SourceSock(t) == IF t[2] THEN ClientSock(t[1]) ELSE ServerSock(t[1])
DestSock(t) == IF t[2] THEN ServerSock(t[1]) ELSE ClientSock(t[1])

\* the frames a client sends, and the frames the broker sends
ClientFrames ==
    { NAME_PREFIX \o <<"a">>,
      NAME_PREFIX \o <<"*", "a">>,
      NAME_PREFIX \o <<"a">> \o NAME_PREFIX \o <<"b">>,
      <<"x">> }
ServerFrames ==
    { NAME_PREFIX \o <<"a">>, <<"x">> }
FramesOf(t) == IF t[2] THEN ClientFrames ELSE ServerFrames

RECURSIVE SumLen(_, _)
SumLen(f, S) ==
    IF S = {} THEN 0
    ELSE LET x == CHOOSE y \in S : TRUE
         IN  Len(f[x]) + SumLen(f, S \ {x})

nonRelay == <<brokerVars, rateVars, limiterVars, rateGhost, frameVars,
             chainVars, leftGhost>>

\* ChatRelay.__init__
RelayInit ==
    /\ hpc = [p \in Pairs |-> "none"]
    /\ connections = <<>>
    /\ sock_closed = {}
    /\ tpc = [t \in Threads |-> "off"]
    /\ tdata = [t \in Threads |-> <<>>]
    /\ first_message = [t \in Threads |-> TRUE]
    /\ rin = [t \in Threads |-> <<>>]
    /\ rout = [t \in Threads |-> <<>>]

\* mutant: the frame passed on as it came
RewriteNickname_Plain(data) == data

\* rewrite_nickname(data)
RewriteNickname(data) ==
    IF StartsWith(data, NAME_PREFIX)
    THEN LET nickname == Split(data, NAME_PREFIX, -1)[2]
         IN  IF ~StartsWith(nickname, <<"*">>)
             THEN NAME_PREFIX \o <<"*">> \o nickname
             ELSE data
    ELSE data

\* run(): accept a client and start its handler thread
RelayAccept(p) ==
    /\ hpc[p] = "none"
    /\ hpc' = [hpc EXCEPT ![p] = "accepted"]
    /\ UNCHANGED <<connections, sock_closed, tpc, tdata, first_message, rin,
                   rout, nonRelay>>

\* mutant: the client socket left open when connect_to_server() failed
HandleClientConnection_Leaked(p) ==
    /\ hpc[p] = "accepted"
    /\ \/ /\ hpc' = [hpc EXCEPT ![p] = "failed"]
          /\ UNCHANGED <<connections, tpc, sock_closed>>
       \/ /\ connections' = With(With(connections, ClientSock(p), ServerSock(p)),
                                 ServerSock(p), ClientSock(p))
          /\ tpc' = [t \in Threads |-> IF t[1] = p THEN "recv" ELSE tpc[t]]
          /\ hpc' = [hpc EXCEPT ![p] = "relaying"]
          /\ UNCHANGED sock_closed
    /\ UNCHANGED <<tdata, first_message, rin, rout, nonRelay>>

\* mutant: only the client-to-upstream direction stored
HandleClientConnection_OneWay(p) ==
    /\ hpc[p] = "accepted"
    /\ \/ /\ sock_closed' = sock_closed \cup {ClientSock(p)}
          /\ hpc' = [hpc EXCEPT ![p] = "failed"]
          /\ UNCHANGED <<connections, tpc>>
       \/ /\ connections' = With(connections, ClientSock(p), ServerSock(p))
          /\ tpc' = [t \in Threads |-> IF t[1] = p THEN "recv" ELSE tpc[t]]
          /\ hpc' = [hpc EXCEPT ![p] = "relaying"]
          /\ UNCHANGED sock_closed
    /\ UNCHANGED <<tdata, first_message, rin, rout, nonRelay>>

\* handle_client_connection: connect_to_server() returns None or a socket
HandleClientConnection(p) ==
    /\ hpc[p] = "accepted"
    /\ \/ /\ sock_closed' = sock_closed \cup {ClientSock(p)}
          /\ hpc' = [hpc EXCEPT ![p] = "failed"]
          /\ UNCHANGED <<connections, tpc>>
       \/ /\ connections' = With(With(connections, ClientSock(p), ServerSock(p)),
                                 ServerSock(p), ClientSock(p))
          /\ tpc' = [t \in Threads |-> IF t[1] = p THEN "recv" ELSE tpc[t]]
          /\ hpc' = [hpc EXCEPT ![p] = "relaying"]
          /\ UNCHANGED sock_closed
    /\ UNCHANGED <<tdata, first_message, rin, rout, nonRelay>>

\* forward_data: data = receive_message(source_sock). A frame arrives, or
\* receive_message returns '' (peer closed, a bad frame, an empty payload, or
\* the socket was closed by the other thread).
ForwardReceive(t) ==
    /\ tpc[t] = "recv"
    /\ \/ \E f \in FramesOf(t) :
             /\ SourceSock(t) \notin sock_closed
             /\ SumLen(rin, Threads) < MaxRelayFrames
             /\ tdata' = [tdata EXCEPT ![t] = f]
             /\ rin' = [rin EXCEPT ![t] = Append(@, f)]
       \/ /\ tdata' = [tdata EXCEPT ![t] = <<>>]
          /\ UNCHANGED rin
    /\ tpc' = [tpc EXCEPT ![t] = "data"]
    /\ UNCHANGED <<hpc, connections, sock_closed, first_message, rout,
                   nonRelay>>

\* the data forward_data hands to send_message
Rewritten(t) ==
    IF t[2] /\ first_message[t] /\ StartsWith(tdata[t], NAME_PREFIX)
    THEN RewriteNickname(tdata[t])
    ELSE tdata[t]

\* forward_data: from "if not data" to the end of the loop body.
\* send_message fails when the destination was closed, and may fail when
\* the peer has gone.
ForwardData(t) ==
    /\ tpc[t] = "data"
    /\ IF tdata[t] = <<>>
       THEN /\ tpc' = [tpc EXCEPT ![t] = "check1"]
            /\ UNCHANGED <<first_message, rout>>
       ELSE /\ first_message' =
                [first_message EXCEPT ![t] = IF t[2] THEN FALSE ELSE @]
            /\ \/ /\ DestSock(t) \notin sock_closed
                  /\ rout' = [rout EXCEPT ![t] = Append(@, Rewritten(t))]
                  /\ tpc' = [tpc EXCEPT ![t] = "recv"]
               \/ /\ tpc' = [tpc EXCEPT ![t] = "check1"]
                  /\ UNCHANGED rout
    /\ UNCHANGED <<hpc, connections, sock_closed, tdata, rin, nonRelay>>

\* cleanup_connection: "if sock1 in self.connections"
CleanupCheck1(t) ==
    /\ tpc[t] = "check1"
    /\ tpc' = [tpc EXCEPT ![t] =
                  IF SourceSock(t) \in DOMAIN connections
                  THEN "del1" ELSE "check2"]
    /\ UNCHANGED <<hpc, connections, sock_closed, tdata, first_message, rin,
                   rout, nonRelay>>

\* "del self.connections[sock]": KeyError when the other thread removed the
\* entry after the membership test
Del(t, sock, after) ==
    IF sock \in DOMAIN connections
    THEN /\ connections' = Without(connections, sock)
         /\ tpc' = [tpc EXCEPT ![t] = after]
    ELSE /\ tpc' = [tpc EXCEPT ![t] = "except"]
         /\ UNCHANGED connections

\* cleanup_connection: "del self.connections[sock1]"
CleanupDel1(t) ==
    /\ tpc[t] = "del1"
    /\ Del(t, SourceSock(t), "check2")
    /\ UNCHANGED <<hpc, sock_closed, tdata, first_message, rin, rout,
                   nonRelay>>

\* cleanup_connection: "if sock2 in self.connections"
CleanupCheck2(t) ==
    /\ tpc[t] = "check2"
    /\ tpc' = [tpc EXCEPT ![t] =
                  IF DestSock(t) \in DOMAIN connections
                  THEN "del2" ELSE "close1"]
    /\ UNCHANGED <<hpc, connections, sock_closed, tdata, first_message, rin,
                   rout, nonRelay>>

\* cleanup_connection: "del self.connections[sock2]"
CleanupDel2(t) ==
    /\ tpc[t] = "del2"
    /\ Del(t, DestSock(t), "close1")
    /\ UNCHANGED <<hpc, sock_closed, tdata, first_message, rin, rout,
                   nonRelay>>

\* cleanup_connection: "sock1.close()"
CleanupClose1(t) ==
    /\ tpc[t] = "close1"
    /\ sock_closed' = sock_closed \cup {SourceSock(t)}
    /\ tpc' = [tpc EXCEPT ![t] = "close2"]
    /\ UNCHANGED <<hpc, connections, tdata, first_message, rin, rout,
                   nonRelay>>

CleanupClose2_Skipped(t) ==
    /\ tpc[t] = "close2"
    /\ tpc' = [tpc EXCEPT ![t] = "done"]
    /\ UNCHANGED <<hpc, connections, sock_closed, tdata, first_message, rin,
                   rout, nonRelay>>

\* cleanup_connection: "sock2.close()" and the log lines
CleanupClose2(t) ==
    /\ tpc[t] = "close2"
    /\ sock_closed' = sock_closed \cup {DestSock(t)}
    /\ tpc' = [tpc EXCEPT ![t] = "done"]
    /\ UNCHANGED <<hpc, connections, tdata, first_message, rin, rout,
                   nonRelay>>

\* cleanup_connection: "except: pass"
CleanupExcept(t) ==
    /\ tpc[t] = "except"
    /\ tpc' = [tpc EXCEPT ![t] = "done"]
    /\ UNCHANGED <<hpc, connections, sock_closed, tdata, first_message, rin,
                   rout, nonRelay>>

\* one statement of cleanup_connection in thread t
CleanupConnection(t) ==
    \/ CleanupCheck1(t)
    \/ CleanupDel1(t)
    \/ CleanupCheck2(t)
    \/ CleanupDel2(t)
    \/ CleanupClose1(t)
    \/ CleanupClose2(t)
    \/ CleanupExcept(t)

(***************************************************************************)
(* FairChain: one client connects to the relay, the relay connects to the  *)
(* broker (connect_to_server), and the broker handles that connection. The *)
(* broker's first frame is what the relay's client-to-upstream thread      *)
(* forwarded; what the broker writes back is what the relay's              *)
(* upstream-to-client thread reads.                                        *)
(***************************************************************************)
\* the relay pairing, its two threads, and the broker's socket for the
\* relay's upstream connection (the first one it accepts)
ChainPair == 1
Upward == <<ChainPair, TRUE>>
Downward == <<ChainPair, FALSE>>
ChainConn == 1

\* select() finds the relay's connection waiting on the listening socket
ChainSelect ==
    /\ hpc[ChainPair] = "relaying" /\ accepted = 0
    /\ Select
    /\ readable' = <<Server>>
    /\ exceptional' = <<>>

\* what receive_message(client) returns in handle_new_connection: the first
\* frame the relay forwarded ('' when its header arrives in pieces), or ''
\* when the relay closed the upstream socket without forwarding anything;
\* until then the call blocks
FirstFrames ==
    IF rout[Upward] # <<>>
    THEN {rout[Upward][1], <<>>}
    ELSE IF ServerSock(ChainPair) \in sock_closed THEN {<<>>} ELSE {}

\* the frames of a handler that reached the relay's upstream connection
Written(frames) ==
    LET mine == SentTo(frames, ChainConn)
    IN  [i \in 1..Len(mine) |-> mine[i].frame]

\* the rest of handle_new_connection for the relay's connection
ChainHandshake ==
    /\ \E cname \in FirstFrames : HandleNewConnection(cname)
    /\ to_relay' = IF ChainConn \in failed' THEN to_relay
                   ELSE to_relay \o Written(sent')
    /\ UNCHANGED <<limiterVars, rateGhost, frameVars, relayVars, leftGhost>>

\* forward_data of the upstream-to-client thread:
\* data = receive_message(source_sock). The next frame the broker wrote
\* arrives ('' when its header arrives in pieces); '' once the broker has
\* closed the connection and nothing is left, or once the relay's other
\* thread has closed the socket.
ChainReceive ==
    /\ tpc[Downward] = "recv"
    /\ \/ /\ to_relay # <<>> /\ ServerSock(ChainPair) \notin sock_closed
          /\ \/ /\ tdata' = [tdata EXCEPT ![Downward] = Head(to_relay)]
                /\ rin' = [rin EXCEPT ![Downward] = Append(@, Head(to_relay))]
             \/ /\ tdata' = [tdata EXCEPT ![Downward] = <<>>]
                /\ UNCHANGED rin
          /\ to_relay' = Tail(to_relay)
       \/ /\ \/ to_relay = <<>> /\ ChainConn \in closed
             \/ ServerSock(ChainPair) \in sock_closed
          /\ tdata' = [tdata EXCEPT ![Downward] = <<>>]
          /\ UNCHANGED <<rin, to_relay>>
    /\ tpc' = [tpc EXCEPT ![Downward] = "data"]
    /\ UNCHANGED <<hpc, connections, sock_closed, first_message, rout,
                   brokerVars, rateVars, limiterVars, rateGhost, frameVars,
                   leftGhost>>

(***************************************************************************)
(* SpecRejoin: the broker accepting one connection more than MaxConn, with *)
(* the nicknames of the sessions that were torn down kept as history. The  *)
(* clock stands still, and the peers send few kinds of frame.              *)
(***************************************************************************)
\* select.select(inputs, self.outputs, inputs, 1) returns
SelectRound ==
    /\ running /\ pending = 0 /\ readable = <<>> /\ exceptional = <<>>
    /\ \E r \in SubLists(inputs, MaxReady),
          e \in SubLists(Remove(inputs, Server), MaxReady) :
          /\ r # <<>> \/ e # <<>>
          /\ Server \in SeqToSet(r) => accepted < MaxConn + 1
          /\ readable' = r
          /\ exceptional' = e
    /\ sent' = <<>>
    /\ failed' = {}
    /\ ev' = NoEvent
    /\ UNCHANGED <<clients, clientmap, nickname_map, inputs, outputs,
                   total_messages, private_messages, offline_messages, running,
                   pending, accepted, received, closed, delivered, offline_ids,
                   rateVars, nonBroker>>

\* first frames of a new connection, and frames of an ACTIVE session
RejoinHandshakes == {NAME_PREFIX \o <<"a">>, NAME_PREFIX \o UNKNOWN}
RejoinData == {<<>>, <<"x">>}

\* the rest of handle_new_connection, once receive_message returned cname
HandshakeRound ==
    /\ \E cname \in RejoinHandshakes : HandleNewConnection(cname)
    /\ UNCHANGED nonBroker

\* the history after a handler ran for sock: the nickname of a session that
\* handle_client_disconnect removed
Left(sock) ==
    IF sock \in DOMAIN clientmap /\ sock \notin DOMAIN clientmap'
    THEN left_names \cup {clientmap[sock][2]}
    ELSE left_names

\* "for sock in readable": handle_client_message(sock, inputs)
ReadableRound ==
    /\ running /\ pending = 0
    /\ readable # <<>> /\ Head(readable) # Server
    /\ readable' = Tail(readable)
    /\ \E data \in RejoinData :
          /\ data # <<>> => received < MaxFrames
          /\ received' = IF data # <<>> THEN received + 1 ELSE received
          /\ HandleClientMessage(Head(readable), data)
          /\ LogMessage(Head(readable), data)
    /\ failed' \in SendFailures(sent')
    /\ left_names' = Left(Head(readable))
    /\ UNCHANGED <<running, exceptional, pending, accepted, now, limiterVars,
                   rateGhost, frameVars, relayVars, chainVars>>

\* "for sock in exceptional": handle_client_error(sock, inputs) for a client
\* socket
ErrorRound ==
    /\ running /\ pending = 0
    /\ readable = <<>> /\ exceptional # <<>>
    /\ ev' = Event("error", Head(exceptional), <<>>, FALSE)
    /\ HandleClientDisconnect(Head(exceptional))
    /\ exceptional' = Tail(exceptional)
    /\ failed' \in SendFailures(sent')
    /\ left_names' = Left(Head(exceptional))
    /\ UNCHANGED <<total_messages, private_messages, offline_messages,
                   running, readable, pending, accepted, received, now,
                   limiterVars, rateGhost, frameVars, relayVars, chainVars>>

(***************************************************************************)
(* Claims about the broker (checked under Spec).                           *)
(***************************************************************************)
\* the text of a stamped frame, after its "[HH:MM:SS] "
AfterStamp(frame) == SubSeq(frame, 12, Len(frame))
IsOfflineFrame(frame) == StartsWith(AfterStamp(frame), OFFLINE_FROM)
ActiveNames == {clientmap[s][2] : s \in DOMAIN clientmap}
\* '/pm <target> <text>' read off the frame: the target runs to the first
\* space after '/pm ', the text is all that follows that space
PmRest(data) == SubSeq(data, Len(PM_PREFIX) + 1, Len(data))
IsPmCommand(data) ==
    StartsWith(data, PM_PREFIX) /\ Find(PmRest(data), <<" ">>) # 0
PmTarget(data) == SubSeq(PmRest(data), 1, Find(PmRest(data), <<" ">>) - 1)
PmText(data) ==
    SubSeq(PmRest(data), Find(PmRest(data), <<" ">>) + 1, Len(PmRest(data)))

\* C1: no two active sessions in clientmap carry the same nickname.
C1_UniqueNicknames ==
    \A s \in DOMAIN clientmap : \A t \in DOMAIN clientmap :
        s # t => clientmap[s][2] # clientmap[t][2]

\* C2: no nickname held in nickname_map or clientmap begins with '*'; a
\* handshake 'NAME: *...' leaves its connection without a session.
C2_NoReservedNickname ==
    /\ \A i \in 1..Len(nickname_map) : nickname_map[i][1] = <<>>
                                       \/ nickname_map[i][1][1] # "*"
    /\ \A s \in DOMAIN clientmap : clientmap[s][2] = <<>>
                                   \/ clientmap[s][2][1] # "*"
    /\ (ev.h = "handshake" /\ StartsWith(ev.data, NAME_PREFIX \o <<"*">>))
          => (ev.sock \notin DOMAIN clientmap /\ ev.sock \in closed)

\* a '*'-prefixed handshake was handled while a session was active
C2_Witness ==
    /\ ev.h = "handshake"
    /\ ev.data = NAME_PREFIX \o <<"*", "a">>
    /\ Len(nickname_map) >= 1
    /\ ev.sock \in closed

\* C6: a join under a nickname is sent that nickname's queued entries as
\* OFFLINE MESSAGE frames, in enqueue order, each once, and leaves the
\* nickname with no mailbox, so a later join with nothing queued in between
\* is sent none; nobody else is sent an OFFLINE MESSAGE frame.
C6_MailboxDrainedInOrder ==
    [][ (ev'.h = "handshake" /\ ev'.sock \in DOMAIN clientmap') =>
          LET client == ev'.sock
              nickname == clientmap'[client][2]
              queued == IF nickname \in DOMAIN offline_messages
                        THEN offline_messages[nickname] ELSE <<>>
              got == SelectSeq(sent', LAMBDA f : IsOfflineFrame(f.frame))
          IN  /\ got = [i \in 1..Len(queued) |->
                          Frame(client,
                                <<"[">> \o queued[i][3] \o <<"]", " ">>
                                \o OFFLINE_FROM \o queued[i][1]
                                \o <<":", " ">> \o queued[i][2])]
              /\ nickname \notin DOMAIN offline_messages'
              /\ \A n \in DOMAIN offline_messages' :
                    /\ n \in DOMAIN offline_messages
                    /\ offline_messages'[n] = offline_messages[n]
      ]_vars

\* a join was sent two different queued entries
C6_Witness ==
    /\ ev.h = "handshake"
    /\ ev.sock \in DOMAIN clientmap
    /\ LET got == SelectSeq(sent, LAMBDA f : IsOfflineFrame(f.frame))
       IN  /\ Len(got) = 2
           /\ got[1] # got[2]
           /\ got[1].to = ev.sock

\* C7: an admitted '/pm <target> <text>' whose target is not in nickname_map
\* appends <<sender, text, timestamp>> to the tail of the target's mailbox,
\* sends the sender alone the offline notice, and changes neither counter.
C7_OfflinePmQueued ==
    [][ ( /\ ev'.h = "message" /\ ev'.admitted
          /\ IsPmCommand(ev'.data)
          /\ ~DictHas(nickname_map, PmTarget(ev'.data)) ) =>
          LET sock == ev'.sock
              target == PmTarget(ev'.data)
              before == IF target \in DOMAIN offline_messages
                        THEN offline_messages[target] ELSE <<>>
          IN  /\ DOMAIN offline_messages' = DOMAIN offline_messages \cup {target}
              /\ offline_messages'[target] =
                    before \o << <<clientmap[sock][2], PmText(ev'.data),
                                   Strftime(now)>> >>
              /\ \A n \in DOMAIN offline_messages :
                    n # target => offline_messages'[n] = offline_messages[n]
              /\ sent' = << [to |-> sock,
                             frame |-> USER_WORD \o target \o IS_OFFLINE] >>
              /\ total_messages' = total_messages
              /\ private_messages' = private_messages
      ]_vars

\* an offline private message was queued behind an earlier one while a
\* second session was active
C7_Witness ==
    /\ ev.h = "message" /\ ev.admitted
    /\ IsPmCommand(ev.data)
    /\ Len(sent) = 1
    /\ sent[1].frame = USER_WORD \o PmTarget(ev.data) \o IS_OFFLINE
    /\ Len(outputs) >= 2
    /\ PmTarget(ev.data) \in DOMAIN offline_messages
    /\ Len(offline_messages[PmTarget(ev.data)]) = 2

\* C8: a denied frame is answered with one 'RATE_LIMIT:' frame to its sender
\* and nothing else; no mailbox and no counter changes.
C8_DeniedFrameDropped ==
    [][ (ev'.h = "message" /\ ev'.data # <<>> /\ ~ev'.admitted) =>
          /\ Len(sent') = 1
          /\ sent'[1].to = ev'.sock
          /\ StartsWith(sent'[1].frame, RATE_LIMIT_PREFIX)
          /\ offline_messages' = offline_messages
          /\ total_messages' = total_messages
          /\ private_messages' = private_messages
      ]_vars

\* a frame was denied while another session was active
C8_Witness ==
    /\ ev.h = "message" /\ ev.data # <<>> /\ ~ev.admitted
    /\ Len(outputs) >= 2
    /\ Len(sent) = 1

\* C11: an admitted frame that does not start with '/pm ', read from an
\* ACTIVE session, is sent as '[<ts>] <nickname>: <text>' once to every other
\* ACTIVE session and not to its sender, nothing else is sent, and
\* total_messages grows by one.
C11_PublicBroadcast ==
    [][ ( /\ ev'.h = "message" /\ ev'.admitted
          /\ ~StartsWith(ev'.data, PM_PREFIX)
          /\ ev'.sock \in DOMAIN clientmap ) =>
          LET sock == ev'.sock
              routed == <<"[">> \o Strftime(now) \o <<"]", " ">>
                        \o clientmap[sock][2] \o <<":", " ">> \o ev'.data
          IN  /\ \A s \in DOMAIN clientmap \ {sock} :
                    SentTo(sent', s) = << [to |-> s, frame |-> routed] >>
              /\ SentTo(sent', sock) = <<>>
              /\ \A i \in 1..Len(sent') : sent'[i].to \in DOMAIN clientmap
              /\ total_messages' = total_messages + 1
              /\ private_messages' = private_messages
              /\ clientmap' = clientmap
      ]_vars

\* a public frame was routed to two other sessions
C11_Witness ==
    /\ ev.h = "message" /\ ev.admitted
    /\ ev.data = <<"x">>
    /\ Cardinality(DOMAIN clientmap) = 3
    /\ Len(sent) = 2
    /\ total_messages = 1

\* the sessions in clientmap that carry nickname n
SessionsNamed(cmap, n) == {s \in DOMAIN cmap : cmap[s][2] = n}

\* C12: an admitted '/pm <target> <text>' from an ACTIVE session, with
\* <target> the nickname of an ACTIVE session, sends one 'PRIVATE from
\* <sender>' frame to the target's connection and one 'PRIVATE to <target>'
\* frame to the sender, nothing to anyone else, leaves every mailbox as it
\* was and adds one to private_messages.
C12_PrivateDelivered ==
    [][ ( /\ ev'.h = "message" /\ ev'.admitted
          /\ IsPmCommand(ev'.data)
          /\ ev'.sock \in DOMAIN clientmap
          /\ SessionsNamed(clientmap, PmTarget(ev'.data)) # {} ) =>
          LET sock == ev'.sock
              target == PmTarget(ev'.data)
              from == <<"[">> \o Strftime(now) \o <<"]", " ">> \o PRIVATE_FROM
                      \o clientmap[sock][2] \o <<":", " ">> \o PmText(ev'.data)
              to == <<"[">> \o Strftime(now) \o <<"]", " ">> \o PRIVATE_TO
                    \o target \o <<":", " ">> \o PmText(ev'.data)
          IN  /\ \E t \in SessionsNamed(clientmap, target) :
                    sent' = << [to |-> t, frame |-> from],
                               [to |-> sock, frame |-> to] >>
              /\ offline_messages' = offline_messages
              /\ private_messages' = private_messages + 1
              /\ total_messages' = total_messages
      ]_vars

\* a handler found its socket closed by the peer or unreadable
IsLeaveEvent(e) == (e.h = "message" /\ e.data = <<>>) \/ e.h = "error"

\* the nicknames a 'USERLIST:' frame lists
UserListNames(frame) ==
    LET body == SubSeq(frame, Len(USERLIST_PREFIX) + 1, Len(frame))
    IN  IF body = <<>> THEN {} ELSE SeqToSet(Split(body, <<",">>, -1))

\* C13: when the connection of an ACTIVE session reads as closed or raises
\* an error condition, the handler leaves the session's nickname out of
\* nickname_map, its socket out of clientmap and its identity out of the
\* rate limiter, and sends each remaining ACTIVE session, and nobody else,
\* the leave notice and then a USERLIST without the nickname.
C13_DisconnectTeardown ==
    [][ (IsLeaveEvent(ev') /\ ev'.sock \in DOMAIN clientmap) =>
          LET sock == ev'.sock
              nickname == clientmap[sock][2]
          IN  /\ ~DictHas(nickname_map', nickname)
              /\ sock \notin DOMAIN clientmap'
              /\ DOMAIN clientmap' = DOMAIN clientmap \ {sock}
              /\ nickname \notin DOMAIN message_times'
              /\ sock \in closed'
              /\ \A i \in 1..Len(sent') : sent'[i].to \in DOMAIN clientmap'
              /\ \A s \in DOMAIN clientmap' :
                    LET got == SentTo(sent', s)
                    IN  /\ Len(got) = 2
                        /\ StartsWith(got[1].frame, nickname \o LEFT_MID)
                        /\ StartsWith(got[2].frame, USERLIST_PREFIX)
                        /\ nickname \notin UserListNames(got[2].frame)
      ]_vars

\* session 'a' left while two other sessions were active
C13_Witness ==
    /\ IsLeaveEvent(ev)
    /\ ev.sock \in closed /\ ev.sock \notin DOMAIN clientmap
    /\ Cardinality(DOMAIN clientmap) = 2
    /\ Len(sent) = 4
    /\ StartsWith(sent[1].frame, <<"a">> \o LEFT_MID)

\* C14: a connection whose first frame does not start with 'NAME: ', or that
\* closes before any frame, is closed without a session: clientmap,
\* nickname_map, clients, inputs, outputs, the mailboxes and the rate
\* limiter are as before, and nothing is sent to anyone.
C14_BadHandshakeDiscarded ==
    [][ (ev'.h = "handshake" /\ ~StartsWith(ev'.data, NAME_PREFIX)) =>
          /\ ev'.sock \in closed'
          /\ ev'.sock \notin DOMAIN clientmap'
          /\ clientmap' = clientmap
          /\ nickname_map' = nickname_map
          /\ clients' = clients
          /\ inputs' = inputs
          /\ outputs' = outputs
          /\ offline_messages' = offline_messages
          /\ message_times' = message_times
          /\ sent' = <<>>
      ]_vars

\* a connection was discarded for the first frame 'x' while a session was
\* active
C14_Witness ==
    /\ ev.h = "handshake"
    /\ ev.data = <<"x">>
    /\ ev.sock \in closed
    /\ clients >= 1
    /\ DOMAIN clientmap # {}

\* C15: a session to which a write fails while a handler runs is torn down
\* by that handler as on a disconnect: afterwards it is out of clientmap, its
\* nickname is out of nickname_map, and the others were sent its leave
\* notice.
C15_WriteFailureTearsDown ==
    [][ \A s \in failed' :
           s \in DOMAIN clientmap =>
              /\ s \notin DOMAIN clientmap'
              /\ ~DictHas(nickname_map', clientmap[s][2])
              /\ \E i \in 1..Len(sent') :
                    StartsWith(sent'[i].frame, clientmap[s][2] \o LEFT_MID)
      ]_vars

\* C16: the dispatcher waits only in select: once it has accepted a
\* connection while sessions are ACTIVE, it gets out of the handshake read
\* of that connection, whether or not the peer sends anything, and so goes on
\* to process the frames of the ACTIVE sessions.
C16_HandshakeReadReturns ==
    (pending # 0 /\ DOMAIN clientmap # {}) ~> (pending = 0)

\* what each session was sent from one sender is in the order the sender's
\* frames were read
FifoOrder ==
    \A r \in Socks :
        \A i \in 1..Len(delivered[r]) : \A j \in 1..Len(delivered[r]) :
            (i < j /\ delivered[r][i][2] = delivered[r][j][2])
               => delivered[r][i][1] < delivered[r][j][1]

\* every mailbox entry is the entry of the client frame recorded for it
MailboxAligned ==
    /\ DOMAIN offline_ids = DOMAIN offline_messages
    /\ \A n \in DOMAIN offline_messages :
          /\ Len(offline_ids[n]) = Len(offline_messages[n])
          /\ \A i \in 1..Len(offline_messages[n]) :
                offline_messages[n][i] =
                    <<offline_ids[n][i].name, PmText(offline_ids[n][i].data),
                      offline_ids[n][i].at>>

\* the 'OFFLINE MESSAGE' frames of a join are the forms of the client frames
\* recorded for the mailbox, one each, in the recorded order
DrainAligned ==
    (ev'.h = "handshake" /\ ev'.sock \in DOMAIN clientmap') =>
        LET nickname == clientmap'[ev'.sock][2]
            ids == IF nickname \in DOMAIN offline_ids
                   THEN offline_ids[nickname] ELSE <<>>
            got == SelectSeq(sent', LAMBDA f : IsOfflineFrame(f.frame))
        IN  /\ Len(got) = Len(ids)
            /\ \A i \in 1..Len(got) :
                  /\ got[i].to = ev'.sock
                  /\ AfterStamp(got[i].frame) =
                        OFFLINE_FROM \o ids[i].name \o <<":", " ">>
                        \o PmText(ids[i].data)
                  /\ SubSeq(got[i].frame, 2, 9) = ids[i].at

\* C17: a session that is sent the routed forms of two admitted frames of
\* one sender is sent them in the order the sender's frames were read,
\* whether they were routed as public messages, as private messages, or
\* through the session's mailbox.
C17_PerSenderFifo ==
    [][FifoOrder' /\ MailboxAligned' /\ DrainAligned]_vars

\* a session was sent a sender's first frame out of its mailbox when it
\* joined, and then the sender's second frame as a public message
C17_Witness ==
    \E r \in Socks : \E s \in Socks :
        /\ delivered[r] = << <<1, s>>, <<2, s>> >>
        /\ ev.h = "message" /\ ev.sock = s /\ ev.admitted
        /\ total_messages = 1 /\ private_messages = 0

\* the last 'USERLIST:' frame among frames
LastUserList(frames) ==
    LET lists == SelectSeq(frames, LAMBDA f : StartsWith(f.frame, USERLIST_PREFIX))
    IN  lists[Len(lists)].frame

\* C18: after a join, or after the leave of an ACTIVE session, every ACTIVE
\* session has been sent a USERLIST, and the last one sent to it lists
\* exactly the nicknames of the ACTIVE sessions; the one sent to a joining
\* session lists its own nickname.
C18_UserListCurrent ==
    [][ ( \/ (ev'.h = "handshake" /\ ev'.sock \in DOMAIN clientmap')
          \/ (IsLeaveEvent(ev') /\ ev'.sock \in DOMAIN clientmap) ) =>
          \A s \in DOMAIN clientmap' :
              /\ \E i \in 1..Len(sent') :
                    sent'[i].to = s /\ StartsWith(sent'[i].frame, USERLIST_PREFIX)
              /\ UserListNames(LastUserList(SentTo(sent', s))) =
                    {clientmap'[t][2] : t \in DOMAIN clientmap'}
      ]_vars

\* a handshake that registered its connection
IsJoin(e, cmap) == e.h = "handshake" /\ e.sock \in DOMAIN cmap

\* the name a 'NAME: <requested>' frame asks for
Requested(data) == SubSeq(data, Len(NAME_PREFIX) + 1, Len(data))

ThreeDigits(s) ==
    Len(s) = 3 /\ \A i \in 1..3 : \E d \in 1..10 : s[i] = DigitChars[d]

\* C19: a join that asks for a name no ACTIVE session holds is given that
\* name; a join that asks for a name an ACTIVE session holds is given the
\* name followed by three decimal digits, which no ACTIVE session holds.
C19_ClaimName ==
    [][ ( /\ IsJoin(ev', clientmap')
          /\ Find(Requested(ev'.data), NAME_PREFIX) = 0 ) =>
          LET requested == Requested(ev'.data)
              assigned == clientmap'[ev'.sock][2]
          IN  IF SessionsNamed(clientmap, requested) = {}
              THEN assigned = requested
              ELSE /\ Len(assigned) = Len(requested) + 3
                   /\ StartsWith(assigned, requested)
                   /\ ThreeDigits(SubSeq(assigned, Len(requested) + 1,
                                         Len(assigned)))
                   /\ SessionsNamed(clientmap, assigned) = {}
      ]_vars

\* every nickname a session of the model can carry
AllNicknames ==
    LET asked == {Split(h, NAME_PREFIX, -1)[2] :
                     h \in {x \in Handshakes : StartsWith(x, NAME_PREFIX)}}
    IN  asked \cup {n \o s : n \in asked, s \in Suffixes}

\* C20: when the session holding nickname n disconnects, n leaves
\* nickname_map; it stays out until the next join; and a join that asks for
\* a name that is not in nickname_map is given exactly that name. So the
\* next handshake asking for n, with no join in between, is assigned n.
C20_NicknameReleased ==
    [][ /\ (IsLeaveEvent(ev') /\ ev'.sock \in DOMAIN clientmap)
            => ~DictHas(nickname_map', clientmap[ev'.sock][2])
        /\ \A n \in AllNicknames :
              (~DictHas(nickname_map, n) /\ ~IsJoin(ev', clientmap'))
                 => ~DictHas(nickname_map', n)
        /\ (IsJoin(ev', clientmap')
               /\ ~DictHas(nickname_map, Split(ev'.data, NAME_PREFIX, -1)[2]))
            => clientmap'[ev'.sock][2] = Split(ev'.data, NAME_PREFIX, -1)[2]
        /\ \A s \in DOMAIN clientmap : clientmap[s][2] \in AllNicknames
      ]_vars

\* session 1 was 'a' and has left; the next connection asked for 'a' and is
\* 'a'
C20_Witness ==
    /\ accepted = 2 /\ 1 \in closed
    /\ ev.h = "handshake" /\ ev.sock = 2
    /\ ev.data = NAME_PREFIX \o <<"a">>
    /\ 2 \in DOMAIN clientmap /\ clientmap[2][2] = <<"a">>
    /\ \E n \in DOMAIN offline_ids :
          offline_ids[n][1].sock = 1 /\ offline_ids[n][1].name = <<"a">>

\* C21: a handshake whose requested name starts with '*' is answered with one
\* 'ERROR: ' frame to its connection and nothing else is sent; the connection
\* is closed without a session, and clients, clientmap, nickname_map, inputs,
\* outputs, the mailboxes and the rate limiter are as before.
C21_ReservedRejected ==
    [][ ( /\ ev'.h = "handshake"
          /\ StartsWith(ev'.data, NAME_PREFIX \o <<"*">>) ) =>
          /\ Len(sent') = 1
          /\ sent'[1].to = ev'.sock
          /\ StartsWith(sent'[1].frame, ERROR_PREFIX)
          /\ ev'.sock \in closed'
          /\ ev'.sock \notin DOMAIN clientmap'
          /\ clientmap' = clientmap
          /\ nickname_map' = nickname_map
          /\ clients' = clients
          /\ inputs' = inputs
          /\ outputs' = outputs
          /\ offline_messages' = offline_messages
          /\ message_times' = message_times
      ]_vars

\* 'NAME: *a' was rejected while two sessions were active and a mailbox was
\* waiting
C21_Witness ==
    /\ ev.h = "handshake"
    /\ ev.data = NAME_PREFIX \o <<"*", "a">>
    /\ ev.sock \in closed
    /\ Len(sent) = 1
    /\ Cardinality(DOMAIN clientmap) = 2
    /\ DOMAIN offline_messages # {}

\* C22: a join sends its own connection, in this order, 'CLIENT: <assigned>',
\* a USERLIST, one OFFLINE MESSAGE frame per entry queued for the assigned
\* name, and a last USERLIST, and nothing else; the join notice goes once to
\* every session that was ACTIVE before, and not to the joining connection.
C22_JoinSequence ==
    [][ IsJoin(ev', clientmap') =>
          LET client == ev'.sock
              assigned == clientmap'[client][2]
              queued == IF assigned \in DOMAIN offline_messages
                        THEN offline_messages[assigned] ELSE <<>>
              n == Len(queued)
              got == SentTo(sent', client)
              notice(f) == StartsWith(f.frame, assigned \o JOINED_MID)
          IN  /\ Len(got) = n + 3
              /\ got[1].frame = CLIENT_PREFIX \o assigned
              /\ StartsWith(got[2].frame, USERLIST_PREFIX)
              /\ \A i \in 1..n : IsOfflineFrame(got[2 + i].frame)
              /\ StartsWith(got[n + 3].frame, USERLIST_PREFIX)
              /\ \A i \in 1..Len(got) : Find(got[i].frame, JOINED_MID) = 0
              /\ \A s \in DOMAIN clientmap :
                    Len(SelectSeq(SentTo(sent', s), notice)) = 1
      ]_vars

\* a connection joined with two entries queued for its name while two other
\* sessions were active
C22_Witness ==
    /\ IsJoin(ev, clientmap)
    /\ Cardinality(DOMAIN clientmap) = 3
    /\ Len(SentTo(sent, ev.sock)) = 5
    /\ Len(sent) = 9

\* the whitespace-separated tokens of data, counted as data.split() does
TokenCount(data) ==
    Cardinality({i \in 1..Len(data) :
                    data[i] # " " /\ (i = 1 \/ data[i - 1] = " ")})

\* data's first token is the private-message marker '/pm'
IsPmWord(data) ==
    /\ StartsWith(data, <<"/", "p", "m">>)
    /\ (Len(data) = 3 \/ data[4] = " ")

\* C25: an admitted frame of an ACTIVE session whose first token is '/pm' and
\* that has fewer than 3 whitespace-separated tokens is answered with the
\* usage frame to its sender and nothing else: no mailbox and no counter
\* changes, and the sender keeps its session.
C25_ShortPmIsUsageError ==
    [][ ( /\ ev'.h = "message" /\ ev'.admitted
          /\ ev'.sock \in DOMAIN clientmap
          /\ IsPmWord(ev'.data)
          /\ TokenCount(ev'.data) < 3 ) =>
          /\ sent' = << [to |-> ev'.sock, frame |-> USAGE_MSG] >>
          /\ offline_messages' = offline_messages
          /\ total_messages' = total_messages
          /\ private_messages' = private_messages
          /\ clientmap' = clientmap
      ]_vars

\* run() is between two select rounds: no handler is running or waiting
BetweenEvents == readable = <<>> /\ exceptional = <<>> /\ pending = 0

\* C29: between events self.clients is the number of sessions in clientmap,
\* and is never negative.
C29_ClientCount ==
    BetweenEvents =>
        /\ clients = Cardinality(DOMAIN clientmap)
        /\ clients >= 0

\* C30: between events nickname_map and clientmap are each other's inverse
\* (nickname_map[n] = s exactly when clientmap[s] carries n), and the sockets
\* in outputs are exactly the sockets with a session in clientmap.
C30_RegistryBijection ==
    BetweenEvents =>
        /\ \A s \in DOMAIN clientmap :
              /\ DictHas(nickname_map, clientmap[s][2])
              /\ DictGet(nickname_map, clientmap[s][2]) = s
        /\ \A i \in 1..Len(nickname_map) :
              /\ nickname_map[i][2] \in DOMAIN clientmap
              /\ clientmap[nickname_map[i][2]][2] = nickname_map[i][1]
        /\ SeqToSet(outputs) = DOMAIN clientmap

\* C31: between events no key of offline_messages is a key of nickname_map:
\* a mailbox is kept only for a nickname that is not registered.
C31_NoMailboxForRegistered ==
    BetweenEvents =>
        \A n \in DOMAIN offline_messages : ~DictHas(nickname_map, n)

\* a join drained the mailbox of its nickname while another nickname's
\* mailbox stayed queued and a second session was registered
C31_Witness ==
    /\ BetweenEvents
    /\ IsJoin(ev, clientmap)
    /\ \E i \in 1..Len(sent) : IsOfflineFrame(sent[i].frame)
    /\ DOMAIN offline_messages # {}
    /\ Len(nickname_map) = 2


\* C33: a frame with an empty payload decodes to '', the value
\* receive_message returns for a closed peer, and handle_client_message
\* given '' from an ACTIVE session tears the session down: the session
\* leaves clientmap, inputs and outputs, its socket is closed, its nickname
\* leaves nickname_map, every remaining session is sent its leave notice,
\* and clients drops by one; check_rate is not called (no RATE_LIMIT frame,
\* no time recorded: the limiter only loses the session's list), and the
\* message counters and mailboxes are unchanged.
C33_EmptyPayloadIsDisconnect ==
    /\ Decode(PickleDumps(<<>>)) = <<>>
    /\ [][ (ev'.h = "message" /\ ev'.data = <<>>
             /\ ev'.sock \in DOMAIN clientmap) =>
            LET s == ev'.sock
                name == clientmap[s][2]
            IN  /\ s \notin DOMAIN clientmap'
                /\ s \notin SeqToSet(inputs') \cup SeqToSet(outputs')
                /\ s \in closed'
                /\ ~DictHas(nickname_map', name)
                /\ clients' = clients - 1
                /\ \A o \in SeqToSet(outputs') :
                      \E i \in 1..Len(sent') :
                         /\ sent'[i].to = o
                         /\ StartsWith(sent'[i].frame, name \o LEFT_MID)
                /\ \A i \in 1..Len(sent') : sent'[i].frame # RATE_LIMIT_MSG
                /\ ~ev'.admitted
                /\ DOMAIN message_times' = DOMAIN message_times \ {name}
                /\ \A n \in DOMAIN message_times' :
                      message_times'[n] = message_times[n]
                /\ UNCHANGED <<total_messages, private_messages,
                               offline_messages>>
       ]_vars

\* session 'a', which had sent a counted message, delivered '' and was torn
\* down; the remaining session was sent the leave notice
C33_Witness ==
    /\ ev.h = "message" /\ ev.data = <<>>
    /\ ev.sock \notin DOMAIN clientmap /\ ev.sock \in closed
    /\ DOMAIN clientmap # {} /\ outputs # <<>>
    /\ total_messages >= 1
    /\ <<"a">> \notin DOMAIN message_times
    /\ ~DictHas(nickname_map, <<"a">>)
    /\ \A o \in SeqToSet(outputs) :
          \E i \in 1..Len(sent) :
             sent[i].to = o /\ StartsWith(sent[i].frame, <<"a">> \o LEFT_MID)

\* a step of handle_client_disconnect for a client socket that has no
\* session: the socket's session was removed earlier in the same round
RepeatedDisconnect ==
    /\ pending = 0
    /\ ev'.sock # Server /\ ev'.sock \notin DOMAIN clientmap
    /\ \/ /\ readable # <<>> /\ Head(readable) = ev'.sock
          /\ ev'.h = "message" /\ ev'.data = <<>>
       \/ /\ readable = <<>>
          /\ exceptional # <<>> /\ Head(exceptional) = ev'.sock
          /\ ev'.h = "error"

\* C34: a handle_client_disconnect call for a socket without a session
\* changes no session's entry in clientmap or nickname_map, no identity's
\* rate-limiter list, and not the client counter.
C34_DisconnectIdempotent ==
    [][ RepeatedDisconnect =>
          /\ clientmap' = clientmap
          /\ nickname_map' = nickname_map
          /\ message_times' = message_times
          /\ clients' = clients
      ]_vars

\* the nicknames the sessions in clientmap carry
SessionNames == {clientmap[s][2] : s \in DOMAIN clientmap}

\* between events the limiter holds a list only for the nickname of a
\* session
WindowsOfSessionsOnly ==
    BetweenEvents => DOMAIN message_times \subseteq SessionNames

\* a handshake that made its connection a session under a nickname a
\* torn-down session carried leaves the limiter without entries for that
\* nickname
RejoinStartsEmpty ==
    (/\ ev'.h = "handshake"
     /\ ev'.sock \in DOMAIN clientmap' /\ ev'.sock \notin DOMAIN clientmap
     /\ clientmap'[ev'.sock][2] \in left_names) =>
        LET nickname == clientmap'[ev'.sock][2]
        IN  \/ nickname \notin DOMAIN message_times'
            \/ message_times'[nickname] = <<>>

\* C35: between events the rate limiter has a list only for nicknames of
\* ACTIVE sessions, and a session that joins under a nickname a
\* disconnected session used before starts with no recorded times.
C35_WindowOnlyForActive ==
    /\ []WindowsOfSessionsOnly
    /\ [][RejoinStartsEmpty]_vars
(***************************************************************************)
(* Claims about the rate limiter (checked under SpecRate).                 *)
(***************************************************************************)
\* the times among log that lie inside the window of a call made at time at
RecentIn(log, at) == {i \in 1..Len(log) : at - log[i] < time_window}

\* C4: a check_rate call made when max_messages calls admitted for that
\* identity (since it was last forgotten) still lie inside the window is
\* denied.
C4_DeniedAtLimit ==
    (rl_call.id # <<>>
       /\ Cardinality(RecentIn(rl_call.admitted_before, rl_call.at))
             >= max_messages)
      => rl_call.result = FALSE

\* max_messages calls were admitted inside the window and the next was denied
C4_Witness ==
    /\ rl_call.id # <<>>
    /\ max_messages = 2
    /\ Cardinality(RecentIn(rl_call.admitted_before, rl_call.at)) = 2
    /\ rl_call.admitted_before[Len(rl_call.admitted_before)] < rl_call.at
    /\ rl_call.result = FALSE

\* C5: a check_rate call made time_window or more after the oldest recorded
\* timestamp of its identity is admitted, whatever was denied in between.
C5_AdmittedAfterWindow ==
    (rl_call.id # <<>> /\ rl_call.before # <<>>
       /\ rl_call.at - Min(SeqToSet(rl_call.before)) >= time_window)
      => rl_call.result = TRUE

\* the identity was denied, denied again later, and then admitted once the
\* oldest recorded timestamp was a full window old while a younger one was
\* still inside the window
C5_Witness ==
    /\ rl_call.id # <<>> /\ rl_call.result = TRUE
    /\ Len(rl_call.before) = 2
    /\ rl_call.at - rl_call.before[1] = time_window
    /\ rl_call.at - rl_call.before[2] < time_window
    /\ \E d \in rl_call.denied_before :
          d >= rl_call.before[2] /\ d < rl_call.at


\* C23: after every check_rate call, no identity's recorded list is longer
\* than max_messages.
C23_WindowBounded ==
    \A id \in DOMAIN message_times : Len(message_times[id]) <= max_messages

\* a call was admitted that filled its identity's list to max_messages = 2,
\* one of the two entries having been recorded in an earlier second
C23_Witness ==
    /\ rl_call.id # <<>> /\ rl_call.result = TRUE
    /\ max_messages = 2
    /\ Len(message_times[rl_call.id]) = 2
    /\ message_times[rl_call.id][1] < message_times[rl_call.id][2]

\* C24: a denied check_rate call leaves in its identity's list exactly the
\* entries that were there and are younger than time_window, adds nothing,
\* and leaves every other identity's list as it was.
C24_DeniedRecordsNothing ==
    [][ (rl_call'.id # <<>> /\ rl_call'.result = FALSE) =>
          LET id == rl_call'.id
              kept == SelectSeq(rl_call'.before,
                                LAMBDA t : rl_call'.at - t < time_window)
          IN  /\ id \in DOMAIN message_times
              /\ rl_call'.before = message_times[id]
              /\ DOMAIN message_times' = DOMAIN message_times
              /\ message_times'[id] = kept
              /\ \A other \in DOMAIN message_times \ {id} :
                    message_times'[other] = message_times[other]
      ]_vars

\* a call was denied at a time later than every recorded entry, while
\* another identity had entries of its own
C24_Witness ==
    /\ rl_call.id # <<>> /\ rl_call.result = FALSE
    /\ Len(rl_call.before) = 2
    /\ \A i \in 1..2 : rl_call.before[i] < rl_call.at
    /\ \E other \in DOMAIN message_times \ {rl_call.id} :
          message_times[other] # <<>>
(***************************************************************************)
(* Claims about the frame transport (checked under SpecFrame).             *)
(***************************************************************************)
\* C3: receive_message returns the payload send_message wrote, however the
\* stream cuts the bytes into chunks.
C3_RoundTrip ==
    (spc = "done" /\ rpc = "done") => result = payload


\* C28: once the sending peer has closed the stream, receive_message
\* returns, wherever in the frame the peer stopped writing.
C28_ReceiveTerminates ==
    peer_closed ~> (rpc = "done")
(***************************************************************************)
(* Claims about the relay (checked under SpecRelay and FairRelay).         *)
(***************************************************************************)
\* what the rewrite rule makes of a first client-to-upstream frame
C9_Expected(f) ==
    IF StartsWith(f, NAME_PREFIX) /\ ~StartsWith(f, NAME_PREFIX \o <<"*">>)
    THEN NAME_PREFIX \o <<"*">> \o SubSeq(f, Len(NAME_PREFIX) + 1, Len(f))
    ELSE f

\* C9: the first client-to-upstream frame 'NAME: <name>' is forwarded as
\* 'NAME: *<name>' when <name> does not start with '*'; every other frame,
\* in either direction, is forwarded unmodified and in the order received.
C9_RewriteRule ==
    \A t \in Threads :
        /\ Len(rout[t]) <= Len(rin[t])
        /\ \A i \in 1..Len(rout[t]) :
               rout[t][i] = IF t[2] /\ i = 1 THEN C9_Expected(rin[t][i])
                            ELSE rin[t][i]

InCleanup(p) ==
    \E t \in Threads :
        t[1] = p /\ tpc[t] \notin {"off", "recv", "data"}

TornDown(p) ==
    /\ {ClientSock(p), ServerSock(p)} \subseteq sock_closed
    /\ DOMAIN connections \cap {ClientSock(p), ServerSock(p)} = {}

\* C10: once a forwarding thread of a pairing has left its loop (peer closed
\* or a write failed), eventually both sockets of the pairing are closed and
\* both its entries are gone from self.connections, whichever thread ran
\* cleanup_connection and however the two threads interleave.
C10_TeardownCompletes ==
    \A p \in Pairs : InCleanup(p) ~> TornDown(p)

\* both threads ran cleanup_connection at once, one of them hit the KeyError
\* and skipped its close calls, and the pairing is torn down all the same
C10_Witness ==
    \E p \in Pairs :
        /\ tpc[<<p, TRUE>>] = "except"
        /\ tpc[<<p, FALSE>>] = "done"
        /\ TornDown(p)


ThreadsOf(p) == {t \in Threads : t[1] = p}
SocksOf(p) == {ClientSock(p), ServerSock(p)}
\* the entries of self.connections that belong to pairing p
EntriesOf(conn, p) == [s \in DOMAIN conn \cap SocksOf(p) |-> conn[s]]
\* this step adds, removes or changes an entry of pairing p
EntriesChanged(p) ==
    \E s \in SocksOf(p) :
        \/ (s \in DOMAIN connections') # (s \in DOMAIN connections)
        \/ s \in DOMAIN connections /\ s \in DOMAIN connections'
              /\ connections'[s] # connections[s]

\* nothing of the pairings other than p changes in this step
OthersUntouched(p) ==
    \A q \in Pairs \ {p} :
        /\ hpc'[q] = hpc[q]
        /\ EntriesOf(connections', q) = EntriesOf(connections, q)
        /\ sock_closed' \cap SocksOf(q) = sock_closed \cap SocksOf(q)
        /\ \A t \in ThreadsOf(q) :
              /\ tpc'[t] = tpc[t] /\ tdata'[t] = tdata[t]
              /\ first_message'[t] = first_message[t]
              /\ rin'[t] = rin[t] /\ rout'[t] = rout[t]

\* C26: when the upstream connection for an accepted client cannot be
\* opened, the handler closes the client socket, adds nothing to
\* self.connections and starts no forwarding thread; nothing of any other
\* pairing changes; and the failed client is never handled again: its threads
\* stay unstarted and its sockets stay out of self.connections.
C26_ConnectFailure ==
    [][ \A p \in Pairs :
          /\ (hpc[p] = "accepted" /\ hpc'[p] = "failed") =>
                /\ sock_closed' = sock_closed \cup {ClientSock(p)}
                /\ connections' = connections
                /\ tpc' = tpc
                /\ OthersUntouched(p)
          /\ hpc[p] = "failed" =>
                /\ hpc'[p] = "failed"
                /\ \A t \in ThreadsOf(p) : tpc'[t] = "off"
                /\ DOMAIN connections' \cap SocksOf(p) = {}
                /\ ServerSock(p) \notin sock_closed'
      ]_vars

\* the connection for one client failed while another pairing was relaying
\* and had forwarded a frame
C26_Witness ==
    \E p \in Pairs : \E q \in Pairs :
        /\ hpc[p] = "failed" /\ hpc[q] = "relaying"
        /\ ClientSock(p) \in sock_closed
        /\ DOMAIN connections = SocksOf(q)
        /\ rout[<<q, TRUE>>] # <<>>
        /\ \A t \in ThreadsOf(q) : tpc[t] = "recv"

\* both forward_data threads of pairing p are inside their loops
BothForwarding(p) == \A t \in ThreadsOf(p) : tpc[t] \in {"recv", "data"}

C32_RelayClientsRejected ==
    /\ [][ /\ ev'.h = "handshake" =>
                /\ ev'.sock \in closed'
                /\ IF StartsWith(ev'.data, NAME_PREFIX)
                   THEN /\ StartsWith(ev'.data, NAME_PREFIX \o <<"*">>)
                        /\ Len(sent') = 1
                        /\ sent'[1].to = ev'.sock
                        /\ StartsWith(sent'[1].frame, ERROR_PREFIX)
                   ELSE sent' = <<>>
           /\ DOMAIN clientmap' = {}
           /\ nickname_map' = <<>>
           /\ outputs' = <<>>
           /\ clients' = 0
      ]_vars
    /\ (ev.h = "handshake") ~> TornDown(ChainPair)

\* the client sent 'NAME: a', the relay forwarded 'NAME: *a', the broker
\* rejected it, the relay passed the 'ERROR: ' frame down to the client, and
\* the pairing is torn down
C32_Witness ==
    /\ rin[Upward] # <<>> /\ rin[Upward][1] = NAME_PREFIX \o <<"a">>
    /\ ev.h = "handshake" /\ ev.data = NAME_PREFIX \o <<"*", "a">>
    /\ ChainConn \in closed /\ DOMAIN clientmap = {}
    /\ rout[Downward] # <<>> /\ StartsWith(rout[Downward][1], ERROR_PREFIX)
    /\ TornDown(ChainPair)
(***************************************************************************)
(* The variables of the other specifications, at rest.                     *)
(***************************************************************************)
RateGhostIdle == rl_call = NoCall /\ rl_log = [id \in RateIds |-> NoLog]
FrameIdle ==
    /\ payload = <<>> /\ wire = <<>> /\ peer_closed = FALSE
    /\ spc = "done" /\ rpc = "done"
    /\ size_data = <<>> /\ size = 0 /\ buf = <<>> /\ result = <<>>
RelayIdle ==
    /\ hpc = <<>> /\ connections = <<>> /\ sock_closed = {} /\ tpc = <<>> /\ tdata = <<>>
    /\ first_message = <<>> /\ rin = <<>> /\ rout = <<>>

ChainIdle == to_relay = <<>> /\ left_names = {}

Init ==
    /\ ChatServerInit /\ LimiterInit /\ RateGhostIdle /\ FrameIdle /\ RelayIdle
    /\ ChainIdle

Next ==
    \/ Select
    \/ Tick
    \/ Accept
    \/ Handshake
    \/ Readable
    \/ HandleClientError

Spec == Init /\ [][Next]_vars

\* the dispatcher thread keeps running: every step of run() that can be
\* taken is taken. What the peers do (Handshake: the accepted peer sends its
\* first frame or closes) carries no fairness.
FairSpec ==
    /\ Spec
    /\ WF_vars(Select)
    /\ WF_vars(Accept)
    /\ WF_vars(Readable)
    /\ WF_vars(HandleClientError)

\* RateLimiter(max_messages, time_window) for each limit and window in range
RateInit ==
    /\ max_messages \in 1..MaxLimit
    /\ time_window \in 1..MaxWindow
    /\ message_times = <<>>
    /\ now = 0
    /\ RateGhostIdle
    /\ ChatServerInit /\ FrameIdle /\ RelayIdle /\ ChainIdle

RateNext ==
    \/ RateCheckAny
    \/ RateRemoveAny
    \/ RateTick

SpecRate == RateInit /\ [][RateNext]_vars

\* one send_message(channel, payload) and one receive_message at the far end
FrameInit ==
    /\ payload \in Payloads
    /\ wire = <<>> /\ peer_closed = FALSE
    /\ spc = "size" /\ rpc = "size"
    /\ size_data = <<>> /\ size = 0 /\ buf = <<>> /\ result = <<>>
    /\ ChatServerInit /\ LimiterInit /\ RateGhostIdle /\ RelayIdle /\ ChainIdle

FrameNext ==
    \/ SendSize
    \/ SendBuffer
    \/ PeerClose
    \/ RecvSize
    \/ RecvLoop
    \/ RecvReturn

SpecFrame == FrameInit /\ [][FrameNext]_vars

\* the thread inside receive_message keeps running: each of its statements
\* that can be executed is executed. What the sending peer does carries no
\* fairness.
FairFrame ==
    /\ SpecFrame
    /\ WF_vars(RecvSize)
    /\ WF_vars(RecvLoop)
    /\ WF_vars(RecvReturn)

\* the relay after construction, with run() accepting clients
RelayStart ==
    /\ RelayInit /\ ChatServerInit /\ LimiterInit /\ RateGhostIdle /\ FrameIdle
    /\ ChainIdle

RelayNext ==
    \/ \E p \in Pairs : RelayAccept(p)
    \/ \E p \in Pairs : HandleClientConnection(p)
    \/ \E t \in Threads : ForwardReceive(t)
    \/ \E t \in Threads : ForwardData(t)
    \/ \E t \in Threads : CleanupConnection(t)

SpecRelay == RelayStart /\ [][RelayNext]_vars

\* the relay serving its first client alone
RelayNextOne ==
    \/ RelayAccept(1)
    \/ HandleClientConnection(1)
    \/ \E t \in Threads : t[1] = 1 /\ ForwardReceive(t)
    \/ \E t \in Threads : t[1] = 1 /\ ForwardData(t)
    \/ \E t \in Threads : t[1] = 1 /\ CleanupConnection(t)

\* every thread that is inside cleanup_connection keeps being scheduled
FairRelay ==
    /\ RelayStart /\ [][RelayNextOne]_vars
    /\ \A t \in Threads : WF_vars(CleanupConnection(t))

\* the relay serving one client, and the broker behind the relay
ChainNext ==
    \/ RelayAccept(ChainPair)
    \/ HandleClientConnection(ChainPair)
    \/ ForwardReceive(Upward)
    \/ ChainReceive
    \/ \E t \in Threads : t[1] = ChainPair /\ ForwardData(t)
    \/ \E t \in Threads : t[1] = ChainPair /\ CleanupConnection(t)
    \/ ChainSelect
    \/ Accept
    \/ ChainHandshake

\* the relay's threads keep being scheduled: a read that can return returns,
\* and a thread past its read goes on. What the client sends, and when, and
\* when the broker's dispatcher runs, carry no fairness.
FairChain ==
    /\ RelayStart /\ [][ChainNext]_vars
    /\ WF_vars(ChainReceive)
    /\ \A t \in Threads : WF_vars(ForwardData(t))
    /\ \A t \in Threads : WF_vars(CleanupConnection(t))

\* the broker accepting up to MaxConn + 1 connections
RejoinNext ==
    \/ SelectRound
    \/ Accept
    \/ HandshakeRound
    \/ ReadableRound
    \/ ErrorRound

SpecRejoin == Init /\ [][RejoinNext]_vars

=============================================================================
